---- MODULE Spec2Model ----
(***************************************************************************)
(* Roast Studio: the round/session state machine over the durable store.   *)
(*                                                                         *)
(* The store holds the tables roast_sessions, roast_messages,              *)
(* roast_exchanges and global_round_state.  Two edge functions write it    *)
(* with the service role (row-level policies do not apply to them):        *)
(* session-manager (the Lifecycle Controller) and complete-live-round      *)
(* (Round-Completion).  Browser clients write it with the anon key, under  *)
(* the row-level policies of the migrations.  Every store statement is one *)
(* atomic step; an invocation of an edge function is a sequence of such    *)
(* steps and invocations interleave.  Spec is the store under the edge     *)
(* functions, the clients and the clock; HostSpec is the playback          *)
(* scheduler of the Host's WatchView over one LIVE session.                *)
(***************************************************************************)
EXTENDS Integers, Sequences, FiniteSets, TLC

VARIABLES
    sessions,   \* roast_sessions: sequence of rows, id = position = creation order
    messages,   \* roast_messages: sequence of rows, id = position = creation order
    grs,        \* global_round_state: sequence of rows in ascending updated_at
    now,        \* wall clock, in seconds
    ctl,        \* session-manager invocations in flight, one record per slot
    clr,        \* complete-live-round invocations in flight, one record per slot
    runs,       \* how many invocations of each edge function have been made
    hist,       \* history: which call created which session, which calls overlapped
    exchanges,  \* roast_exchanges: sequence of rows in insertion order
    host,       \* the WatchView component of the Host client
    follower,   \* the WatchView component of a Follower client
    personas    \* table personas: the ids of its rows

hostVars == <<exchanges, host, follower, personas>>
vars == <<sessions, messages, grs, now, ctl, clr, runs, hist, exchanges, host,
          follower, personas>>

-----------------------------------------------------------------------------
(* Bounds of the model *)

MaxSessions == 3
MaxMessages == 1
MaxNow == 421
NumPersonas == 1
NumControllers == 2
NumCompleters == 2
MaxCtlRuns == 2
MaxClrRuns == 2
MaxInFlight == 2
MaxCallGap == 1

(* Program constants *)

SubmitWindowSec == 120
LockedGraceSec == 10
StallArchiveSec == 300

NULL == 0
NoTime == -1

Personas == 1..NumPersonas
Controllers == 1..NumControllers
Completers == 1..NumCompleters

ActiveStatuses == {"OPEN", "LOCKED", "LIVE"}

StatusRank(st) ==
    CASE st = "OPEN" -> 1
      [] st = "LOCKED" -> 2
      [] st = "LIVE" -> 3
      [] st = "ARCHIVED" -> 4

SessionIds == 1..Len(sessions)
MessageIds == 1..Len(messages)

Min(a, b) == IF a <= b THEN a ELSE b

-----------------------------------------------------------------------------
(* Table operations *)

SetStatus(ss, sid, st) ==
    [ss EXCEPT ![sid].status = st]

\* .update({status: st}).eq("id", sid).eq("status", from)
SetStatusIf(ss, sid, from, st) ==
    IF sid \in 1..Len(ss) /\ ss[sid].status = from
    THEN SetStatus(ss, sid, st) ELSE ss

NewSession(persona, t) ==
    [status |-> "OPEN", lock_time |-> t + SubmitWindowSec, persona |-> persona]

UnusedOf(ms, sid) ==
    {m \in 1..Len(ms) : ms[m].session_id = sid /\ ~ms[m].used}

CountUnused(ms, sid) ==
    Cardinality(UnusedOf(ms, sid))

ActiveSessions(ss) ==
    {s \in 1..Len(ss) : ss[s].status \in ActiveStatuses}

\* select ... order by updated_at desc limit 1
LatestGrs(g) ==
    IF g = <<>> THEN NULL ELSE g[Len(g)].id

\* The authoritative row: the most recently updated one.
Authoritative(g) ==
    g[Len(g)]

StateUpdate(sid, rs, submitEnd, liveStart, total) ==
    [session_id |-> sid, round_state |-> rs, current_roast_index |-> 0,
     total_roasts |-> total, submit_end_time |-> submitEnd,
     live_start_time |-> liveStart]

WithId(upd, id) ==
    [id |-> id, session_id |-> upd.session_id, round_state |-> upd.round_state,
     current_roast_index |-> upd.current_roast_index,
     total_roasts |-> upd.total_roasts,
     submit_end_time |-> upd.submit_end_time,
     live_start_time |-> upd.live_start_time]

\* The last statement of updateGlobalRoundState: update the row read before, or
\* insert one when none was read.  An updated row gets updated_at = now() from
\* the table's BEFORE UPDATE trigger and so becomes the latest row.
WriteGrs(g, existing, upd) ==
    IF existing # NULL
    THEN IF \E i \in 1..Len(g) : g[i].id = existing
         THEN Append(SelectSeq(g, LAMBDA r : r.id # existing), WithId(upd, existing))
         ELSE g
    ELSE Append(g, WithId(upd, Len(g) + 1))

\* The trigger's UPDATE with current_roast_index + 1 in place of LEAST(...).
TriggerUncapped(g, sid) ==
    LET hit(r) == r.session_id = sid /\ r.round_state = "LIVE"
        bump(r) == [r EXCEPT !.current_roast_index = r.current_roast_index + 1]
        hits == SelectSeq(g, hit)
    IN  SelectSeq(g, LAMBDA r : ~hit(r)) \o [i \in 1..Len(hits) |-> bump(hits[i])]

\* increment_global_round_progress_on_message_used, fired for one row whose
\* used flag went from false to true.
TriggerOnUsed(g, sid) ==
    LET hit(r) == r.session_id = sid /\ r.round_state = "LIVE"
        bump(r) == [r EXCEPT !.current_roast_index =
                                Min(r.total_roasts, r.current_roast_index + 1)]
        hits == SelectSeq(g, hit)
    IN  SelectSeq(g, LAMBDA r : ~hit(r)) \o [i \in 1..Len(hits) |-> bump(hits[i])]

RECURSIVE TriggerTimes(_, _, _)
TriggerTimes(g, sid, k) ==
    IF k = 0 THEN g ELSE TriggerTimes(TriggerOnUsed(g, sid), sid, k - 1)

-----------------------------------------------------------------------------
(* Row-level policies: they bind the browser clients (anon key) only *)

\* An INSERT policy that looks at no status.
InsertMessageAnyStatus(ss, sid) ==
    sid \in 1..Len(ss)

\* "Anyone can submit messages to open sessions": INSERT ... WITH CHECK
InsertMessagePolicy(ss, sid) ==
    sid \in 1..Len(ss) /\ ss[sid].status = "OPEN"

\* "Anyone can mark messages used in live sessions": UPDATE ... USING
UpdateMessageUsing(ss, row) ==
    ss[row.session_id].status = "LIVE"

\* "Anyone can mark messages used in live sessions": UPDATE ... WITH CHECK
UpdateMessageCheck(ss, row) ==
    ss[row.session_id].status = "LIVE" /\ row.used = TRUE

\* roast_sessions has row-level security enabled and a SELECT policy only:
\* a client's INSERT or UPDATE of a session row is rejected.
AnonMayWriteSessions ==
    FALSE

-----------------------------------------------------------------------------
(* Browser clients *)

\* SubmissionForm.submitText / submitRecording: one INSERT under the policy.
SubmitInsert(ms, ss, sid) ==
    IF InsertMessagePolicy(ss, sid)
    THEN Append(ms, [session_id |-> sid, used |-> FALSE])
    ELSE ms

SubmitMessage(sid) ==
    /\ Len(messages) < MaxMessages
    /\ messages' = SubmitInsert(messages, sessions, sid)
    /\ UNCHANGED <<sessions, grs, now, ctl, clr, runs, hist, hostVars>>

\* The value a client's mark-used statement writes into the used column.
MarkUsedValue ==
    TRUE

\* WatchView.markMessageUsed and StudioView.processMessage:
\* .update({used: true}).eq("id", m), under the UPDATE policy.
ClientMarkUsed(ms, ss, m) ==
    LET row == [ms[m] EXCEPT !.used = MarkUsedValue]
    IN  IF UpdateMessageUsing(ss, ms[m]) /\ UpdateMessageCheck(ss, row)
        THEN [ms EXCEPT ![m] = row]
        ELSE ms

Flipped(old, new, m) ==
    ~old[m].used /\ new[m].used

MarkMessageUsed(m) ==
    /\ m \in MessageIds
    /\ messages' = ClientMarkUsed(messages, sessions, m)
    /\ grs' = IF Flipped(messages, messages', m)
              THEN TriggerOnUsed(grs, messages[m].session_id)
              ELSE grs
    /\ UNCHANGED <<sessions, now, ctl, clr, runs, hist, hostVars>>

AnonInsertSession(ss, persona, t) ==
    IF AnonMayWriteSessions /\ Len(ss) < MaxSessions
    THEN Append(ss, NewSession(persona, t))
    ELSE ss

\* WatchView.forceNewKOL: insert an OPEN session, then update the
\* global_round_state row whose id is "singleton" (ids are generated uuids:
\* the update matches no row).
ForceNewKOL(persona) ==
    /\ sessions' = AnonInsertSession(sessions, persona, now)
    /\ UNCHANGED <<messages, grs, now, ctl, clr, runs, hist, hostVars>>

\* SessionManager.createDemoSession, run by a client whose last fetch showed
\* no active session.
CreateDemoSession(persona) ==
    /\ sessions' = AnonInsertSession(sessions, persona, now)
    /\ UNCHANGED <<messages, grs, now, ctl, clr, runs, hist, hostVars>>

\* A client's .update({status}) of a session row, under row-level security.
AnonSetStatus(ss, sid, st) ==
    IF AnonMayWriteSessions /\ sid \in 1..Len(ss) THEN SetStatus(ss, sid, st) ELSE ss

\* SessionManager.handleSessionComplete: archive the session by id, whatever
\* its status, then insert the next OPEN session.
HandleSessionComplete(sid, persona) ==
    /\ sessions' = AnonInsertSession(AnonSetStatus(sessions, sid, "ARCHIVED"),
                                     persona, now)
    /\ UNCHANGED <<messages, grs, now, ctl, clr, runs, hist, hostVars>>

-----------------------------------------------------------------------------
(* The clock *)

\* The instants at which a time comparison of the code changes its value:
\* lock_time (OPEN->LOCKED), lock_time + 10 s (LOCKED->LIVE) and the first
\* second past lock_time + 5 min (stalled LIVE session archived).
Thresholds ==
    UNION {{sessions[s].lock_time,
            sessions[s].lock_time + LockedGraceSec,
            sessions[s].lock_time + StallArchiveSec + 1} : s \in SessionIds}

Tick ==
    /\ \E t \in Thresholds : t > now /\ t <= MaxNow /\ now' = t
    /\ UNCHANGED <<sessions, messages, grs, ctl, clr, runs, hist, hostVars>>

-----------------------------------------------------------------------------
(* updateGlobalRoundState, the helper both edge functions carry: count the   *)
(* session's unused messages, read the latest row's id, update or insert.    *)
(* p is the record of the calling invocation; call holds the arguments.      *)

NoCall == [session_id |-> NULL, round_state |-> "WAITING",
           submit_end_time |-> NoTime, live_start_time |-> NoTime]

CallArgs(sid, rs, submitEnd, liveStart) ==
    [session_id |-> sid, round_state |-> rs,
     submit_end_time |-> submitEnd, live_start_time |-> liveStart]

\* Enter the helper: with a null session id no count query is made.
EnterUgs(p, args, ret) ==
    [p EXCEPT !.pc = IF args.session_id = NULL THEN "ugsRead" ELSE "ugsCount",
              !.call = args, !.ret = ret, !.total = 0, !.existing = NULL]

\* A count that leaves out .eq("used", false).
UgsCountAll(p) ==
    [p EXCEPT !.pc = "ugsRead",
              !.total = Cardinality({m \in 1..Len(messages) :
                            messages[m].session_id = p.call.session_id})]

UgsCount(p) ==
    [p EXCEPT !.pc = "ugsRead",
              !.total = CountUnused(messages, p.call.session_id)]

UgsRead(p) ==
    [p EXCEPT !.pc = "ugsWrite", !.existing = LatestGrs(grs)]

UgsWritten(p) ==
    WriteGrs(grs, p.existing,
             StateUpdate(p.call.session_id, p.call.round_state,
                         p.call.submit_end_time, p.call.live_start_time, p.total))

LeaveUgs(p) ==
    [p EXCEPT !.pc = p.ret, !.call = NoCall, !.ret = "idle",
              !.total = 0, !.existing = NULL]

-----------------------------------------------------------------------------
(* session-manager: the Lifecycle Controller *)

CtlIdle == [pc |-> "idle", now |-> NoTime, todo |-> {}, cur |-> NULL,
            call |-> NoCall, ret |-> "idle", total |-> 0, existing |-> NULL]

\* The status writes of session-manager: .update({status}).eq("id", id)
CtlWriteStatus(ss, sid, st) ==
    SetStatus(ss, sid, st)

OpenDue(ss, t) ==
    {s \in 1..Len(ss) : ss[s].status = "OPEN" /\ ss[s].lock_time <= t}

\* A LOCKED session due as soon as its lock_time has passed.
LockedDueNoGrace(ss, t) ==
    {s \in 1..Len(ss) : ss[s].status = "LOCKED" /\ ss[s].lock_time <= t}

LockedDue(ss, t) ==
    {s \in 1..Len(ss) : ss[s].status = "LOCKED"
                         /\ ss[s].lock_time <= t - LockedGraceSec}

\* .eq("status", "OPEN").order("created_at", desc).limit(1)
LatestOpen(ss) ==
    LET open == {s \in 1..Len(ss) : ss[s].status = "OPEN"}
    IN  IF open = {} THEN NULL ELSE CHOOSE s \in open : \A o \in open : o <= s

LiveSessions(ss) ==
    {s \in 1..Len(ss) : ss[s].status = "LIVE"}

NeedsSubmittingSync(g, sid) ==
    \/ g = <<>>
    \/ Authoritative(g).session_id # sid
    \/ Authoritative(g).round_state # "SUBMITTING"

\* A stall that counts from exactly 5 minutes on.
StalledFromFiveMinutes(ss, sid, t) ==
    t - ss[sid].lock_time >= StallArchiveSec

StalledLongEnough(ss, sid, t) ==
    t - ss[sid].lock_time > StallArchiveSec

\* The edge-function invocations that have started and not yet returned.
InFlight ==
    Cardinality({c \in Controllers : ctl[c].pc # "idle"})
    + Cardinality({r \in Completers : clr[r].pc # "idle"})

\* An invocation takes the first free slot: which slot it takes means nothing.
CtlInvoke(c) ==
    /\ ctl[c].pc = "idle"
    /\ \A d \in Controllers : d < c => ctl[d].pc # "idle"
    /\ InFlight < MaxInFlight
    /\ runs.ctl < MaxCtlRuns
    /\ runs' = [runs EXCEPT !.ctl = @ + 1]
    /\ ctl' = [ctl EXCEPT ![c] = [CtlIdle EXCEPT !.pc = "readOpen", !.now = now]]
    /\ UNCHANGED <<sessions, messages, grs, now, clr, hist, hostVars>>

CtlReadOpen(c) ==
    /\ ctl[c].pc = "readOpen"
    /\ LET due == OpenDue(sessions, ctl[c].now)
       IN  ctl' = [ctl EXCEPT ![c].todo = due,
                              ![c].pc = IF due = {} THEN "readLocked" ELSE "lockLoop"]
    /\ UNCHANGED <<sessions, messages, grs, now, clr, runs, hist, hostVars>>

CtlLock(c) ==
    /\ ctl[c].pc = "lockLoop"
    /\ \E s \in ctl[c].todo :
         /\ sessions' = CtlWriteStatus(sessions, s, "LOCKED")
         /\ ctl' = [ctl EXCEPT ![c].todo = @ \ {s},
                               ![c].pc = IF ctl[c].todo = {s} THEN "readLocked"
                                                               ELSE "lockLoop"]
    /\ UNCHANGED <<messages, grs, now, clr, runs, hist, hostVars>>

CtlReadLocked(c) ==
    /\ ctl[c].pc = "readLocked"
    /\ LET due == LockedDue(sessions, ctl[c].now)
       IN  ctl' = [ctl EXCEPT ![c].todo = due,
                              ![c].pc = IF due = {} THEN "readCurOpen" ELSE "liveLoop"]
    /\ UNCHANGED <<sessions, messages, grs, now, clr, runs, hist, hostVars>>

CtlLive(c) ==
    /\ ctl[c].pc = "liveLoop"
    /\ \E s \in ctl[c].todo :
         /\ sessions' = CtlWriteStatus(sessions, s, "LIVE")
         /\ ctl' = [ctl EXCEPT ![c] =
                EnterUgs([ctl[c] EXCEPT !.todo = @ \ {s}],
                         CallArgs(s, "LIVE", sessions[s].lock_time, ctl[c].now),
                         IF ctl[c].todo = {s} THEN "readCurOpen" ELSE "liveLoop")]
    /\ UNCHANGED <<messages, grs, now, clr, runs, hist, hostVars>>

CtlReadCurOpen(c) ==
    /\ ctl[c].pc = "readCurOpen"
    /\ LET s == LatestOpen(sessions)
       IN  ctl' = [ctl EXCEPT ![c].cur = s,
                              ![c].pc = IF s = NULL THEN "readLive" ELSE "readGlobal"]
    /\ UNCHANGED <<sessions, messages, grs, now, clr, runs, hist, hostVars>>

CtlReadGlobal(c) ==
    /\ ctl[c].pc = "readGlobal"
    /\ LET s == ctl[c].cur
       IN  ctl' = [ctl EXCEPT ![c] =
                IF NeedsSubmittingSync(grs, s)
                THEN EnterUgs([ctl[c] EXCEPT !.cur = NULL],
                              CallArgs(s, "SUBMITTING", sessions[s].lock_time, NoTime),
                              "readLive")
                ELSE [ctl[c] EXCEPT !.cur = NULL, !.pc = "readLive"]]
    /\ UNCHANGED <<sessions, messages, grs, now, clr, runs, hist, hostVars>>

CtlReadLive(c) ==
    /\ ctl[c].pc = "readLive"
    /\ LET live == LiveSessions(sessions)
       IN  ctl' = [ctl EXCEPT ![c] =
                IF live = {} THEN CtlIdle
                ELSE [ctl[c] EXCEPT !.todo = live, !.pc = "stallCount"]]
    /\ UNCHANGED <<sessions, messages, grs, now, clr, runs, hist, hostVars>>

\* The count of unused messages, then the read of lock_time (a column no
\* statement ever changes, so that read is taken together with the count).
CtlStallCount(c) ==
    /\ ctl[c].pc = "stallCount"
    /\ \E s \in ctl[c].todo :
         ctl' = [ctl EXCEPT ![c] =
            IF CountUnused(messages, s) = 0
               /\ StalledLongEnough(sessions, s, ctl[c].now)
            THEN [ctl[c] EXCEPT !.todo = @ \ {s}, !.cur = s, !.pc = "stallArchive"]
            ELSE IF ctl[c].todo = {s} THEN CtlIdle
            ELSE [ctl[c] EXCEPT !.todo = @ \ {s}]]
    /\ UNCHANGED <<sessions, messages, grs, now, clr, runs, hist, hostVars>>

CtlStallArchive(c) ==
    /\ ctl[c].pc = "stallArchive"
    /\ sessions' = CtlWriteStatus(sessions, ctl[c].cur, "ARCHIVED")
    /\ ctl' = [ctl EXCEPT ![c] =
            EnterUgs([ctl[c] EXCEPT !.cur = NULL],
                     CallArgs(NULL, "WAITING", NoTime, NoTime),
                     IF ctl[c].todo = {} THEN "idle" ELSE "stallCount")]
    /\ UNCHANGED <<messages, grs, now, clr, runs, hist, hostVars>>

CtlUgsCount(c) ==
    /\ ctl[c].pc = "ugsCount"
    /\ ctl' = [ctl EXCEPT ![c] = UgsCount(ctl[c])]
    /\ UNCHANGED <<sessions, messages, grs, now, clr, runs, hist, hostVars>>

CtlUgsRead(c) ==
    /\ ctl[c].pc = "ugsRead"
    /\ ctl' = [ctl EXCEPT ![c] = UgsRead(ctl[c])]
    /\ UNCHANGED <<sessions, messages, grs, now, clr, runs, hist, hostVars>>

CtlUgsWrite(c) ==
    /\ ctl[c].pc = "ugsWrite"
    /\ grs' = UgsWritten(ctl[c])
    /\ ctl' = [ctl EXCEPT ![c] =
            IF ctl[c].ret = "idle" THEN CtlIdle ELSE LeaveUgs(ctl[c])]
    /\ UNCHANGED <<sessions, messages, now, clr, runs, hist, hostVars>>

-----------------------------------------------------------------------------
(* complete-live-round: Round-Completion *)

ClrIdle == [pc |-> "idle", arg |-> NULL, seen |-> "none", act |-> NULL,
            created |-> NULL,
            call |-> NoCall, ret |-> "idle", total |-> 0, existing |-> NULL]

\* .update({status: "ARCHIVED"}).eq("id", sessionId).eq("status", "LIVE")
ClrArchiveWrite(ss, sid) ==
    SetStatusIf(ss, sid, "LIVE", "ARCHIVED")

\* A cleanup that writes used = false over the session's used messages.
ClrMarkWriteClears(ms, sid) ==
    [m \in 1..Len(ms) |->
        IF ms[m].session_id = sid /\ ms[m].used
        THEN [ms[m] EXCEPT !.used = FALSE]
        ELSE ms[m]]

\* .update({used: true}).eq("session_id", sessionId).eq("used", false)
ClrMarkWrite(ms, sid) ==
    [m \in 1..Len(ms) |->
        IF ms[m].session_id = sid /\ ~ms[m].used
        THEN [ms[m] EXCEPT !.used = TRUE]
        ELSE ms[m]]

\* The round phase the reconcile branch derives from the active session's row.
RoundStateFor(st) ==
    IF st = "OPEN" THEN "SUBMITTING"
    ELSE IF st = "LOCKED" \/ st = "LIVE" THEN "LIVE"
    ELSE "WAITING"

ReconcileLiveStart(st, t) ==
    IF st = "LIVE" THEN t ELSE NoTime

\* The persona of the successor: personas[Math.floor(Math.random() * n)]
SuccessorPersonas(ss, sid) ==
    personas

\* A call in flight for session sid whose lookup found it LIVE.
SawLive(p, sid) ==
    p.pc # "idle" /\ p.arg = sid /\ p.seen = "LIVE"

\* Any id may be posted, also one that matches no session.
ClrInvoke(r) ==
    /\ clr[r].pc = "idle"
    /\ \A q \in Completers : q < r => clr[q].pc # "idle"
    /\ InFlight < MaxInFlight
    /\ runs.clr < MaxClrRuns
    /\ runs' = [runs EXCEPT !.clr = @ + 1]
    /\ \E sid \in 1..MaxSessions :
         clr' = [clr EXCEPT ![r] = [ClrIdle EXCEPT !.pc = "lookup", !.arg = sid]]
    /\ UNCHANGED <<sessions, messages, grs, now, ctl, hist, hostVars>>

ClrLookup(r) ==
    /\ clr[r].pc = "lookup"
    /\ clr' = [clr EXCEPT ![r] =
            IF clr[r].arg \in SessionIds
            THEN [clr[r] EXCEPT !.pc = "archive",
                                !.seen = sessions[clr[r].arg].status]
            ELSE ClrIdle]
    /\ hist' = IF clr[r].arg \in SessionIds /\ sessions[clr[r].arg].status = "LIVE"
                  /\ \E q \in Completers \ {r} : SawLive(clr[q], clr[r].arg)
               THEN [hist EXCEPT !.raced = @ \cup {clr[r].arg}]
               ELSE hist
    /\ UNCHANGED <<sessions, messages, grs, now, ctl, runs, hostVars>>

ClrArchive(r) ==
    /\ clr[r].pc = "archive"
    /\ sessions' = ClrArchiveWrite(sessions, clr[r].arg)
    /\ clr' = [clr EXCEPT ![r].pc = "markUsed"]
    /\ UNCHANGED <<messages, grs, now, ctl, runs, hist, hostVars>>

ClrMarkUsed(r) ==
    /\ clr[r].pc = "markUsed"
    /\ messages' = ClrMarkWrite(messages, clr[r].arg)
    /\ grs' = TriggerTimes(grs, clr[r].arg, CountUnused(messages, clr[r].arg))
    /\ clr' = [clr EXCEPT ![r].pc = "readActive"]
    /\ UNCHANGED <<sessions, now, ctl, runs, hist, hostVars>>

\* .in("status", ["OPEN", "LOCKED", "LIVE"]).limit(1): any one active session.
ClrReadActive(r) ==
    /\ clr[r].pc = "readActive"
    /\ IF ActiveSessions(sessions) = {}
       THEN clr' = [clr EXCEPT ![r].pc = "insert"]
       ELSE \E a \in ActiveSessions(sessions) :
              clr' = [clr EXCEPT ![r].pc = "readActiveData", ![r].act = a]
    /\ UNCHANGED <<sessions, messages, grs, now, ctl, runs, hist, hostVars>>

ClrInsert(r) ==
    /\ clr[r].pc = "insert"
    /\ Len(sessions) < MaxSessions
    /\ \E p \in SuccessorPersonas(sessions, clr[r].arg) :
         sessions' = Append(sessions, NewSession(p, now))
    /\ clr' = [clr EXCEPT ![r] =
            EnterUgs([clr[r] EXCEPT !.created = Len(sessions) + 1],
                     CallArgs(Len(sessions) + 1, "SUBMITTING",
                              now + SubmitWindowSec, NoTime),
                     "idle")]
    /\ hist' = [hist EXCEPT !.succ = @ \cup {<<Len(sessions) + 1, clr[r].arg>>}]
    /\ UNCHANGED <<messages, grs, now, ctl, runs, hostVars>>

ClrReadActiveData(r) ==
    /\ clr[r].pc = "readActiveData"
    /\ LET a  == clr[r].act
           st == sessions[a].status
       IN  clr' = [clr EXCEPT ![r] =
                EnterUgs(clr[r],
                         CallArgs(a, RoundStateFor(st), sessions[a].lock_time,
                                  ReconcileLiveStart(st, now)),
                         "idle")]
    /\ UNCHANGED <<sessions, messages, grs, now, ctl, runs, hist, hostVars>>

ClrUgsCount(r) ==
    /\ clr[r].pc = "ugsCount"
    /\ clr' = [clr EXCEPT ![r] = UgsCount(clr[r])]
    /\ UNCHANGED <<sessions, messages, grs, now, ctl, runs, hist, hostVars>>

ClrUgsRead(r) ==
    /\ clr[r].pc = "ugsRead"
    /\ clr' = [clr EXCEPT ![r] = UgsRead(clr[r])]
    /\ UNCHANGED <<sessions, messages, grs, now, ctl, runs, hist, hostVars>>

\* The helper's write is the call's last statement: the call returns success.
ClrUgsWrite(r) ==
    /\ clr[r].pc = "ugsWrite"
    /\ grs' = UgsWritten(clr[r])
    /\ clr' = [clr EXCEPT ![r] = ClrIdle]
    /\ UNCHANGED <<sessions, messages, now, ctl, runs, hist, hostVars>>

Store ==
    [sessions |-> sessions, messages |-> messages, grs |-> grs]

\* A lookup that finds a row for every id.
NoSessionMissing(ss, sid) ==
    TRUE

\* .select("id, status").eq("id", sessionId).maybeSingle(): a row was found
SessionFound(ss, sid) ==
    sid \in 1..Len(ss)

\* The status of the response: 404 from the lookup's early return, else 200.
ResponseStatus(ss, sid) ==
    IF SessionFound(ss, sid) THEN 200 ELSE 404

\* One whole call of complete-live-round at time t with no other writer in
\* between its statements: the set of stores it can leave (the active session
\* read with limit(1) and the persona drawn are its choices).
CompleteLiveRound(db, sid, t) ==
    IF ~SessionFound(db.sessions, sid) THEN {db}
    ELSE
    LET ss1 == ClrArchiveWrite(db.sessions, sid)
        ms1 == ClrMarkWrite(db.messages, sid)
        g1  == TriggerTimes(db.grs, sid, CountUnused(db.messages, sid))
        new == Len(ss1) + 1
        wrote(ss, a, rs, submitEnd, liveStart) ==
            [sessions |-> ss, messages |-> ms1,
             grs |-> WriteGrs(g1, LatestGrs(g1),
                              StateUpdate(a, rs, submitEnd, liveStart,
                                          CountUnused(ms1, a)))]
    IN  IF ActiveSessions(ss1) = {}
        THEN IF new > MaxSessions THEN {}
             ELSE {wrote(Append(ss1, NewSession(p, t)), new, "SUBMITTING",
                         t + SubmitWindowSec, NoTime)
                     : p \in SuccessorPersonas(ss1, sid)}
        ELSE {wrote(ss1, a, RoundStateFor(ss1[a].status), ss1[a].lock_time,
                    ReconcileLiveStart(ss1[a].status, t))
                : a \in ActiveSessions(ss1)}

\* updateGlobalRoundState of session-manager run without interruption.
UpdateGlobalRoundState(db, sid, rs, submitEnd, liveStart) ==
    WriteGrs(db.grs, LatestGrs(db.grs),
             StateUpdate(sid, rs, submitEnd, liveStart,
                         IF sid = NULL THEN 0 ELSE CountUnused(db.messages, sid)))

RECURSIVE WriteStatusAll(_, _, _)
WriteStatusAll(ss, todo, st) ==
    IF todo = {} THEN ss
    ELSE LET s == CHOOSE x \in todo : TRUE
         IN  WriteStatusAll(CtlWriteStatus(ss, s, st), todo \ {s}, st)

\* One whole invocation of session-manager at time t with no other writer in
\* between its statements: the set of stores it can leave.  Its loops visit
\* the selected sessions in the order the query returned them, which nothing
\* fixes; every pass of a loop writes the same latest global row, so the row
\* left by a loop is the one written for the session visited last.
SessionManagerRun(db, t) ==
    LET ss1 == WriteStatusAll(db.sessions, OpenDue(db.sessions, t), "LOCKED")
        due == LockedDue(ss1, t)
        ss2 == WriteStatusAll(ss1, due, "LIVE")
        with(g) == [sessions |-> ss2, messages |-> db.messages, grs |-> g]
        G2 == IF due = {} THEN {db.grs}
              ELSE {UpdateGlobalRoundState(with(db.grs), s, "LIVE",
                                           ss1[s].lock_time, t) : s \in due}
        cur == LatestOpen(ss2)
        g3(g) == IF cur # NULL /\ NeedsSubmittingSync(g, cur)
                 THEN UpdateGlobalRoundState(with(g), cur, "SUBMITTING",
                                             ss2[cur].lock_time, NoTime)
                 ELSE g
        stalled == {s \in LiveSessions(ss2) :
                       /\ CountUnused(db.messages, s) = 0
                       /\ StalledLongEnough(ss2, s, t)}
        ss4 == WriteStatusAll(ss2, stalled, "ARCHIVED")
        g4(g) == IF stalled = {} THEN g
                 ELSE UpdateGlobalRoundState(with(g), NULL, "WAITING",
                                             NoTime, NoTime)
    IN  {[sessions |-> ss4, messages |-> db.messages, grs |-> g4(g3(g))]
            : g \in G2}

-----------------------------------------------------------------------------
(* State of a Follower's WatchView component.                                *)

MaxFollowerNow == 36
ShortClip == 5
LongClip == 34

\* The length of the silent response segment when there is no audio.
FallbackDelayMs == 3000

StaleAfterSec == 30

Clips == {ShortClip, LongClip}

NoAudio == [clip |-> NULL, elapsed |-> 0, playing |-> FALSE, currentTime |-> 0]

NoSnapshot == [url |-> NULL, started_at |-> NoTime]

\* A component that is not mounted: no audio element, nothing handled yet.
FollowerIdle ==
    [mounted |-> FALSE, audio |-> NoAudio, snapshot |-> NoSnapshot,
     last |-> "none"]

-----------------------------------------------------------------------------
(* WatchView on the Host client: the playback scheduler.                     *)
(* Queue indices are 0-based as in the code; msgs[i + 1] is messages[i].     *)
(* Every await of the component is a point where its other callbacks run.    *)

MaxQueue == 2
MaxExchanges == 4

HostSession == 1

NoGlobalState == [session_id |-> NULL, round_state |-> "none"]

NoResponse ==
    [idx |-> NoTime, hostType |-> "none", cached |-> FALSE,
     roast |-> "none", ttsUrl |-> "null", delayMs |-> 0]

\* The refs and state of a component that is not mounted.
HostIdle ==
    [mounted |-> FALSE, status |-> "none", msgs |-> <<>>, fetched |-> FALSE,
     globalState |-> NoGlobalState, closure |-> NoGlobalState,
     liveEnded |-> FALSE, isHost |-> FALSE,
     isPlaying |-> FALSE, playing |-> FALSE, hasCompleted |-> FALSE,
     depsChanged |-> FALSE, timer |-> FALSE, ticker |-> FALSE,
     elapsedSlots |-> 0,
     processed |-> {}, current |-> NoTime, pregen |-> {}, cache |-> {},
     pc |-> "none", resp |-> NoResponse, fin |-> "none", calling |-> NULL]

\* The component as first rendered for a session with the given status: the
\* initial values of its refs and state; its effects have not run yet.
HostMounted(st) ==
    [HostIdle EXCEPT !.mounted = TRUE, !.status = st, !.depsChanged = TRUE]

\* The client's role in the session's playback channel, decided when it
\* subscribes: the first subscriber is Host, every other one is not, and the
\* role is not handed over afterwards.
ElectedRoles == BOOLEAN

\* The auto-start effect acts for whichever client runs it.
AutoStartAnyClient(h) ==
    h.status = "LIVE" /\ ~h.hasCompleted

\* The condition of the auto-start effect.
AutoStartAllowed(h) ==
    h.status = "LIVE" /\ ~h.hasCompleted /\ h.isHost

\* pregenForIndex: hostType = idx % 2 === 0 ? "A" : "B"
PregenHost(idx) ==
    IF idx % 2 = 0 THEN "A" ELSE "B"

\* A response host that does not alternate.
AlwaysHostA(idx) ==
    "A"

\* processRoast: hostType = idx % 2 === 0 ? "A" : "B"
ResponseHost(idx) ==
    IF idx % 2 = 0 THEN "A" ELSE "B"

\* fetchMessages: the session's unused messages in creation order.
UnusedInOrder(ms, sid) ==
    LET RECURSIVE from(_)
        from(m) == IF m > Len(ms) THEN <<>>
                   ELSE IF ms[m].session_id = sid /\ ~ms[m].used
                        THEN <<m>> \o from(m + 1)
                        ELSE from(m + 1)
    IN  from(1)

storeVars == <<sessions, messages, grs>>
idleVars == <<now, ctl, clr, runs, hist, follower, personas>>

\* The effect of the mount: fetchMessages; setMessages re-renders, and the
\* render makes a new processRoast (messages is one of its dependencies),
\* which holds that render's finishPlayback and, through it, that render's
\* endLiveRound with the round state the hook had then.
HostFetchMessages ==
    /\ host.mounted /\ ~host.fetched
    /\ LET got == UnusedInOrder(messages, HostSession)
       IN  host' = [host EXCEPT !.fetched = TRUE, !.msgs = got,
                                !.closure = host.globalState,
                                !.depsChanged = @ \/ Len(got) # Len(host.msgs)]
    /\ UNCHANGED <<storeVars, idleVars, exchanges>>

\* useRoundState: the realtime subscription delivers the latest row.
HostSyncGlobalState ==
    /\ host.mounted /\ grs # <<>>
    /\ LET row == Authoritative(grs)
           new == [session_id |-> row.session_id, round_state |-> row.round_state]
       IN  /\ host.globalState # new
           /\ host' = [host EXCEPT
                  !.globalState = new,
                  !.liveEnded = IF host.globalState.session_id # row.session_id
                                THEN FALSE ELSE @]
    /\ UNCHANGED <<storeVars, idleVars, exchanges>>

\* The parent re-renders the component with the session row's new status.
HostSessionProp ==
    /\ host.mounted
    /\ host.status # sessions[HostSession].status
    /\ host' = [host EXCEPT !.status = sessions[HostSession].status,
                            !.depsChanged = TRUE]
    /\ UNCHANGED <<storeVars, idleVars, exchanges>>

\* A render before the scheduler is armed in which another dependency of
\* processRoast changed (broadcastState, which useSessionSync returns): the
\* new processRoast holds the round state of this render.
HostRenderCallbacks ==
    /\ host.mounted /\ ~host.timer /\ ~host.ticker /\ ~host.playing
    /\ host.closure # host.globalState
    /\ host' = [host EXCEPT !.closure = host.globalState]
    /\ UNCHANGED <<storeVars, idleVars, exchanges>>

\* The auto-start effect, re-run after a render in which one of session.status,
\* messages.length, isHost, isPlaying changed: the cleanup of its last run
\* clears the pending timer, then the body runs.
HostAutoStartEffect ==
    /\ host.mounted /\ host.depsChanged
    /\ host' =
         IF AutoStartAllowed(host)
         THEN IF Len(host.msgs) = 0 /\ ~host.playing
              THEN [host EXCEPT !.depsChanged = FALSE, !.timer = FALSE,
                                !.playing = TRUE, !.fin = "noRoasts",
                                !.closure = host.globalState]
              ELSE IF Len(host.msgs) > 0 /\ ~host.isPlaying /\ ~host.playing
              THEN [host EXCEPT !.depsChanged = FALSE, !.timer = TRUE]
              ELSE [host EXCEPT !.depsChanged = FALSE, !.timer = FALSE]
         ELSE [host EXCEPT !.depsChanged = FALSE, !.timer = FALSE]
    /\ UNCHANGED <<storeVars, idleVars, exchanges>>

\* startTimestampScheduler: nothing for a client that is not Host; else
\* reset the refs, pre-generate index 0, start the 250 ms ticker.
SchedulerStarted(h) ==
    IF ~h.isHost THEN h
    ELSE [h EXCEPT !.processed = {}, !.current = NoTime, !.cache = {},
                   !.playing = TRUE, !.ticker = TRUE, !.elapsedSlots = 0,
                   !.pregen = IF Len(h.msgs) > 0 THEN @ \cup {0} ELSE @]

\* onStateChange of useSessionSync in a client that is not Host: the display
\* state follows the snapshot, isPlaying among it (the audio of the snapshot
\* is the follower's).
HostOnStateChange ==
    /\ host.mounted /\ ~host.isHost
    /\ \E is_playing \in BOOLEAN :
         /\ is_playing # host.isPlaying
         /\ host' = [host EXCEPT !.isPlaying = is_playing, !.depsChanged = TRUE]
    /\ UNCHANGED <<storeVars, idleVars, exchanges>>

\* The 1500 ms timer of the auto-start effect fires: handleStart.
HostTimerFires ==
    /\ host.timer
    /\ host' = IF Len(host.msgs) = 0
               THEN [host EXCEPT !.timer = FALSE]
               ELSE SchedulerStarted([host EXCEPT !.timer = FALSE,
                                                  !.isPlaying = TRUE,
                                                  !.depsChanged = @ \/ ~host.isPlaying])
    /\ UNCHANGED <<storeVars, idleVars, exchanges>>

\* The text the generate-roast function returns when the call succeeds.
GeneratedText == "generated"

\* The data URL generateTTS builds when the text-to-speech call succeeds.
SynthAudio == "data:audio/mpeg"

\* The line generateRoast returns for a host when its call has failed (the
\* source's line for host A ends with an emoji).
CannedLine(hostType) ==
    IF hostType = "A" THEN "Oh WOW, that was BRUTAL!"
    ELSE "Now that's what I call a proper roast."

\* A generateRoast that gives no text when its call has failed.
GenerateRoastNoFallback(hostType, ok) ==
    IF ok THEN GeneratedText ELSE "none"

\* generateRoast: the function's text, or the canned line of the host when
\* the response is not ok or the call throws.
GenerateRoast(hostType, ok) ==
    IF ok THEN GeneratedText ELSE CannedLine(hostType)

\* generateTTS: the audio URL, or null when the response is not ok or the
\* call throws.
GenerateTTS(ok) ==
    IF ok THEN SynthAudio ELSE "null"

\* The response segment: playAudio(ttsUrl), or a timeout of 3000 ms when
\* there is no audio.
ResponseDelayMs(ttsUrl) ==
    IF ttsUrl # "null" THEN 0 ELSE FallbackDelayMs

\* pregenCacheRef.current.has(idx)
CacheHas(h, idx) ==
    \E e \in h.cache : e.idx = idx

\* pregenCacheRef.current.set(idx, entry): a Map holds one entry per key.
CacheSet(cache, entry) ==
    {e \in cache : e.idx # entry.idx} \cup {entry}

\* pregenCacheRef.current.get(idx), taken when it is for the given host.
CacheHits(cache, idx, hostType) ==
    {e \in cache : e.idx = idx /\ e.hostType = hostType}

\* A cache that keeps an entry after its use.
CacheKept(cache, idx) ==
    cache

\* pregenCacheRef.current.delete(idx)
CacheDelete(cache, idx) ==
    {e \in cache : e.idx # idx}

\* pregenForIndex(idx) completes: both calls have returned, each with its
\* result or its fallback, and the cache gets the entry for idx.
HostPregenDone(idx) ==
    /\ idx \in host.pregen
    /\ \E genOk, ttsOk \in BOOLEAN :
         host' = [host EXCEPT
                  !.pregen = @ \ {idx},
                  !.cache = CacheSet(@, [idx |-> idx,
                                         hostType |-> PregenHost(idx),
                                         roastText |-> GenerateRoast(PregenHost(idx), genOk),
                                         ttsUrl |-> GenerateTTS(ttsOk)])]
    /\ UNCHANGED <<storeVars, idleVars, exchanges>>

\* The lowest queue index not processed yet (the ticker's loop runs over the
\* indices in ascending order).
NextUnprocessed(h) ==
    LET left == {i \in 0..(Len(h.msgs) - 1) : i \notin h.processed}
    IN  IF left = {} THEN NoTime ELSE CHOOSE i \in left : \A k \in left : i <= k

\* A ticker for which every index is due from the start of the run.
AlwaysDue(h, i) ==
    TRUE

\* elapsed >= i * BASE_DELAY_PER_ROAST, with elapsed counted in whole base
\* delays of 15 s since liveStartTimeRef.
SlotDue(h, i) ==
    h.elapsedSlots >= i

\* A ticker that starts the due index whatever is being processed.
TickerAlwaysStarts(h) ==
    TRUE

\* currentlyProcessingRef.current === null, in the ticker and again at the top
\* of processRoast.
TickerMayStart(h) ==
    h.current = NoTime

\* Another base delay of 15 s has passed since the run began (counted up to
\* the last offset the ticker compares with).
HostBaseDelayElapses ==
    /\ host.ticker
    /\ host.elapsedSlots < MaxQueue - 1
    /\ host' = [host EXCEPT !.elapsedSlots = @ + 1]
    /\ UNCHANGED <<storeVars, idleVars, exchanges>>

\* One run of the ticker that does something: it stops itself when playback
\* is off, starts processRoast for the lowest unprocessed index when that
\* index is due and nothing is being processed, or stops itself when every
\* index is processed and nothing is being processed.
HostTicker ==
    /\ host.ticker
    /\ LET i == NextUnprocessed(host)
       IN  IF ~host.mounted \/ ~host.playing
           THEN host' = [host EXCEPT !.ticker = FALSE]
           ELSE IF i = NoTime
           THEN /\ host.current = NoTime
                /\ host' = [host EXCEPT !.ticker = FALSE]
           ELSE /\ SlotDue(host, i)
                /\ TickerMayStart(host)
                /\ host' = [host EXCEPT
                       !.current = i, !.processed = @ \cup {i}, !.pc = "user",
                       !.pregen = IF i + 1 < Len(host.msgs)
                                     /\ ~CacheHas(host, i + 1)
                                  THEN @ \cup {i + 1} ELSE @]
    /\ UNCHANGED <<storeVars, idleVars, exchanges>>

\* processRoast after the user's part has played: the host of the response
\* and where the response comes from.
HostChooseResponse ==
    /\ host.pc = "user"
    /\ LET idx == host.current
           hostType == ResponseHost(idx)
           hits == CacheHits(host.cache, idx, hostType)
       IN  IF ~host.mounted \/ ~host.playing
           THEN host' = [host EXCEPT !.pc = "none", !.current = NoTime]
           ELSE IF hits # {}
           THEN \E cached \in hits :
                  host' = [host EXCEPT
                     !.pc = "save",
                     !.cache = CacheDelete(@, idx),
                     !.resp = [idx |-> idx, hostType |-> hostType,
                               cached |-> TRUE,
                               roast |-> cached.roastText,
                               ttsUrl |-> cached.ttsUrl,
                               delayMs |-> ResponseDelayMs(cached.ttsUrl)]]
           ELSE \E genOk, ttsOk \in BOOLEAN :
                  host' = [host EXCEPT
                     !.pc = "save",
                     !.resp = [idx |-> idx, hostType |-> hostType,
                               cached |-> FALSE,
                               roast |-> GenerateRoast(hostType, genOk),
                               ttsUrl |-> GenerateTTS(ttsOk),
                               delayMs |-> ResponseDelayMs(GenerateTTS(ttsOk))]]
    /\ UNCHANGED <<storeVars, idleVars, exchanges>>

\* saveExchange(message.id, ..., hostType, ..., idx + 1)
ExchangeRow(h) ==
    [session_id |-> HostSession, message_id |-> h.msgs[h.resp.idx + 1],
     host_type |-> h.resp.hostType,
     sequence_number |-> h.resp.idx + 1]

HostSaveExchange ==
    /\ host.pc = "save"
    /\ Len(exchanges) < MaxExchanges
    /\ exchanges' = Append(exchanges, ExchangeRow(host))
    /\ host' = [host EXCEPT !.pc = "mark"]
    /\ UNCHANGED <<storeVars, idleVars>>

HostMarkUsed ==
    /\ host.pc = "mark"
    /\ LET m == host.msgs[host.resp.idx + 1]
       IN  /\ messages' = ClientMarkUsed(messages, sessions, m)
           /\ grs' = IF Flipped(messages, messages', m)
                     THEN TriggerOnUsed(grs, messages[m].session_id)
                     ELSE grs
    /\ host' = [host EXCEPT !.pc = "pause"]
    /\ UNCHANGED <<sessions, idleVars, exchanges>>

\* The end of processRoast; after the last index finishPlayback starts: it
\* stops the ticker, turns playback off and awaits its broadcast.
HostEndRoast ==
    /\ host.pc = "pause"
    /\ host' =
         IF host.resp.idx = Len(host.msgs) - 1
         THEN [host EXCEPT !.pc = "none", !.current = NoTime, !.resp = NoResponse,
                           !.ticker = FALSE, !.playing = FALSE,
                           !.isPlaying = FALSE,
                           !.depsChanged = @ \/ host.isPlaying,
                           !.fin = "broadcast"]
         ELSE [host EXCEPT !.pc = "none", !.current = NoTime, !.resp = NoResponse]
    /\ UNCHANGED <<storeVars, idleVars, exchanges>>

\* useRoundState.endLiveRound, as the caller holds it: fire the backend call
\* when the round state of the render it was made in says LIVE and this round
\* was not ended before.
EndLiveRound(h) ==
    IF h.closure.round_state # "LIVE" \/ h.liveEnded THEN h
    ELSE [h EXCEPT !.liveEnded = TRUE,
                   !.calling = h.closure.session_id,
                   !.globalState.round_state = "WAITING"]

\* finishPlayback after its broadcast, and the end of the no-roasts
\* commentary: end the round once, then forceNewKOL.
HostComplete ==
    /\ host.fin # "none"
    /\ IF host.hasCompleted
       THEN /\ host' = [host EXCEPT !.fin = "none"]
            /\ UNCHANGED sessions
       ELSE /\ host' = EndLiveRound([host EXCEPT !.fin = "none",
                                                 !.hasCompleted = TRUE])
            /\ \E p \in Personas : sessions' = AnonInsertSession(sessions, p, now)
    /\ UNCHANGED <<messages, grs, idleVars, exchanges>>

\* The complete-live-round call that endLiveRound fired runs in the backend.
HostBackendCompletes ==
    /\ host.calling # NULL
    /\ \E db \in CompleteLiveRound(Store, host.calling, now) :
         /\ sessions' = db.sessions
         /\ messages' = db.messages
         /\ grs' = db.grs
    /\ host' = [host EXCEPT !.calling = NULL]
    /\ UNCHANGED <<idleVars, exchanges>>

\* An unmount whose cleanup leaves the interval running.
HostUnmountKeepsTicker ==
    /\ host.mounted
    /\ host' = [host EXCEPT !.mounted = FALSE, !.timer = FALSE]
    /\ UNCHANGED <<storeVars, idleVars, exchanges>>

\* The component unmounts: the cleanups clear the ticker and the timer.
HostUnmount ==
    /\ host.mounted
    /\ host' = [host EXCEPT !.mounted = FALSE, !.ticker = FALSE, !.timer = FALSE]
    /\ UNCHANGED <<storeVars, idleVars, exchanges>>

\* A LIVE session with its queue of unused messages, as the Controller leaves
\* it, and the Host's component mounted while the session was still OPEN.
LiveStore(n) ==
    [sessions |-> <<[NewSession(1, 0) EXCEPT !.status = "LIVE"]>>,
     messages |-> [m \in 1..n |-> [session_id |-> HostSession, used |-> FALSE]],
     grs |-> <<WithId(StateUpdate(HostSession, "LIVE", SubmitWindowSec,
                                  SubmitWindowSec + LockedGraceSec, n), 1)>>]

HostInit ==
    /\ \E n \in 0..MaxQueue :
         /\ sessions = LiveStore(n).sessions
         /\ messages = LiveStore(n).messages
         /\ grs = LiveStore(n).grs
    /\ now = SubmitWindowSec + LockedGraceSec
    /\ ctl = [c \in Controllers |-> CtlIdle]
    /\ clr = [r \in Completers |-> ClrIdle]
    /\ runs = [ctl |-> 0, clr |-> 0]
    /\ hist = [succ |-> {}, raced |-> {}]
    /\ exchanges = <<>>
    /\ \E isHost \in ElectedRoles :
         host = [HostMounted("OPEN") EXCEPT !.isHost = isHost]
    /\ follower = FollowerIdle
    /\ personas = Personas

HostNext ==
    \/ HostFetchMessages \/ HostSyncGlobalState \/ HostSessionProp
    \/ HostRenderCallbacks \/ HostAutoStartEffect \/ HostTimerFires
    \/ HostOnStateChange \/ HostBaseDelayElapses
    \/ \E idx \in 0..(MaxQueue - 1) : HostPregenDone(idx)
    \/ HostTicker \/ HostChooseResponse \/ HostSaveExchange \/ HostMarkUsed
    \/ HostEndRoast \/ HostComplete \/ HostBackendCompletes \/ HostUnmount

HostSpec == HostInit /\ [][HostNext]_vars

\* The Host stays attached (the component never unmounts) and every call it
\* awaits returns: each effect, timer, tick and continuation that stays
\* enabled is run.  Nothing makes a render re-create the callbacks.
HostAttachedNext ==
    \/ HostFetchMessages \/ HostSyncGlobalState \/ HostSessionProp
    \/ HostRenderCallbacks \/ HostAutoStartEffect \/ HostTimerFires
    \/ HostOnStateChange \/ HostBaseDelayElapses
    \/ \E idx \in 0..(MaxQueue - 1) : HostPregenDone(idx)
    \/ HostTicker \/ HostChooseResponse \/ HostSaveExchange \/ HostMarkUsed
    \/ HostEndRoast \/ HostComplete \/ HostBackendCompletes

HostFairness ==
    /\ WF_vars(HostFetchMessages) /\ WF_vars(HostSyncGlobalState)
    /\ WF_vars(HostSessionProp) /\ WF_vars(HostAutoStartEffect)
    /\ WF_vars(HostTimerFires) /\ WF_vars(HostBaseDelayElapses)
    /\ \A idx \in 0..(MaxQueue - 1) : WF_vars(HostPregenDone(idx))
    /\ WF_vars(HostTicker) /\ WF_vars(HostChooseResponse)
    /\ WF_vars(HostSaveExchange) /\ WF_vars(HostMarkUsed)
    /\ WF_vars(HostEndRoast) /\ WF_vars(HostComplete)
    /\ WF_vars(HostBackendCompletes)

HostLiveSpec == HostInit /\ [][HostAttachedNext]_vars /\ HostFairness

-----------------------------------------------------------------------------
(* current_roast_index: the trigger on roast_messages and the hooks'         *)
(* advanceRoastIndex, over one LIVE session.                                 *)

MaxIndexQueue == 3
MaxIndex == 4

\* The row as the hook keeps it in globalState.  The playback scheduler reads
\* session_id and round_state of it only; advanceRoastIndex reads id,
\* current_roast_index and total_roasts as well.
HookRow(row) ==
    [id |-> row.id, session_id |-> row.session_id,
     round_state |-> row.round_state,
     current_roast_index |-> row.current_roast_index,
     total_roasts |-> row.total_roasts]

\* globalState before the first fetch returns.
NoHookRow ==
    [id |-> NULL, session_id |-> NULL, round_state |-> "none",
     current_roast_index |-> 0, total_roasts |-> 0]

\* fetchGlobalState and the realtime subscription of the hook: setGlobalState
\* with the latest row; the next render re-creates endLiveRound and
\* advanceRoastIndex around it.
HookSyncRow ==
    /\ host.mounted /\ grs # <<>>
    /\ LET new == HookRow(Authoritative(grs))
       IN  /\ host.globalState # new
           /\ host' = [host EXCEPT
                  !.globalState = new, !.closure = new,
                  !.liveEnded = IF host.globalState.session_id # new.session_id
                                THEN FALSE ELSE @]
    /\ UNCHANGED <<storeVars, idleVars, exchanges>>

\* A client's .update(...).eq("id", id) on global_round_state: the named row
\* gets the new index, and the new phase if the update carries one.
SamePhase == "same"

ClientUpdateIndex(g, id, newIndex, phase) ==
    LET hit(r) == r.id = id
        upd(r) == [r EXCEPT !.current_roast_index = newIndex,
                            !.round_state = IF phase = SamePhase THEN @ ELSE phase]
        hits == SelectSeq(g, hit)
    IN  SelectSeq(g, LAMBDA r : ~hit(r)) \o [i \in 1..Len(hits) |-> upd(hits[i])]

\* useRoundState.advanceRoastIndex: from the row the hook holds, end the round
\* at the last index, else write the next index.
AdvanceRoastIndex ==
    /\ host.mounted /\ host.globalState.id # NULL
    /\ host.globalState.current_roast_index < MaxIndex
    /\ LET gs == host.globalState
           newIndex == gs.current_roast_index + 1
       IN  IF newIndex >= gs.total_roasts
           THEN /\ host' = EndLiveRound(host)
                /\ grs' = grs
           ELSE /\ grs' = ClientUpdateIndex(grs, gs.id, newIndex, SamePhase)
                /\ host' = host
    /\ UNCHANGED <<sessions, messages, idleVars, exchanges>>

\* useGlobalRoundState.advanceRoastIndex: write the next index, together with
\* phase WAITING at the last one.
AdvanceRoastIndexGlobal ==
    /\ host.mounted /\ host.globalState.id # NULL
    /\ host.globalState.current_roast_index < MaxIndex
    /\ LET gs == host.globalState
           newIndex == gs.current_roast_index + 1
       IN  grs' = ClientUpdateIndex(grs, gs.id, newIndex,
                     IF newIndex >= gs.total_roasts THEN "WAITING" ELSE SamePhase)
    /\ UNCHANGED <<sessions, messages, host, idleVars, exchanges>>

\* A LIVE session with n unused messages; its row in the phase and with the
\* total its last writer left, and no roast counted yet.
IndexInit ==
    /\ \E n \in 1..MaxIndexQueue, total \in 0..MaxIndexQueue,
          phase \in {"LIVE", "WAITING"} :
         /\ total <= n
         /\ sessions = LiveStore(n).sessions
         /\ messages = LiveStore(n).messages
         /\ grs = <<[LiveStore(n).grs[1] EXCEPT !.total_roasts = total,
                                                !.round_state = phase]>>
    /\ now = SubmitWindowSec + LockedGraceSec
    /\ ctl = [c \in Controllers |-> CtlIdle]
    /\ clr = [r \in Completers |-> ClrIdle]
    /\ runs = [ctl |-> 0, clr |-> 0]
    /\ hist = [succ |-> {}, raced |-> {}]
    /\ exchanges = <<>>
    /\ host = [HostMounted("LIVE") EXCEPT !.globalState = NoHookRow,
                                          !.closure = NoHookRow]
    /\ follower = FollowerIdle
    /\ personas = Personas

IndexNext ==
    \/ \E m \in MessageIds : MarkMessageUsed(m)
    \/ HookSyncRow
    \/ AdvanceRoastIndex
    \/ AdvanceRoastIndexGlobal
    \/ HostBackendCompletes

IndexSpec == IndexInit /\ [][IndexNext]_vars

-----------------------------------------------------------------------------
(* processRoast: what the Host plays in each segment and what it broadcasts. *)
(* A message is kept with its audio_url and transcript; an absent value is   *)
(* the string "null".                                                        *)

RecordedClip == "clip"

MessageContents ==
    [audio_url : {"null", RecordedClip}, transcript : {"null", "text"}]

NoBroadcast ==
    [phase |-> "none", current_audio_url |-> "null", audio_started_at |-> NoTime]

\* The current_audio_url of the snapshot processRoast broadcasts for the
\* user's roast.
RoastSnapshotUrl(message, played) ==
    message.audio_url

\* The audio of the user's roast: the recorded clip, else a narration of the
\* transcript by generateTTS(transcript, "announcer"), else nothing (a timeout
\* of 3000 ms).
RoastAudio(message, ttsOk) ==
    IF message.audio_url # "null" THEN message.audio_url
    ELSE IF message.transcript # "null" THEN GenerateTTS(ttsOk)
    ELSE "null"

\* processRoast(idx) up to the end of the user's roast: the snapshot is
\* broadcast, then the audio starts.
ProcessRoastUserPart ==
    /\ host.mounted /\ host.pc = "none"
    /\ host.current + 1 < Len(host.msgs)
    /\ \E ttsOk \in BOOLEAN :
         LET idx == host.current + 1
             message == host.msgs[idx + 1]
             played == RoastAudio(message, ttsOk)
         IN  host' = [host EXCEPT
                !.current = idx, !.pc = "roast", !.audio = played,
                !.sent = [phase |-> "roast",
                          current_audio_url |-> RoastSnapshotUrl(message, played),
                          audio_started_at |-> now]]
    /\ UNCHANGED <<storeVars, idleVars, exchanges>>

\* processRoast from the transition to the end of the host's response: the
\* response text and its audio (generated, or their fallbacks), the snapshot,
\* then the audio.
ProcessRoastResponsePart ==
    /\ host.mounted /\ host.pc = "roast"
    /\ \E genOk, ttsOk \in BOOLEAN :
         LET hostType == ResponseHost(host.current)
             ttsUrl == GenerateTTS(ttsOk)
         IN  host' = [host EXCEPT
                !.pc = "response", !.audio = ttsUrl,
                !.text = GenerateRoast(hostType, genOk),
                !.sent = [phase |-> "response",
                          current_audio_url |-> ttsUrl,
                          audio_started_at |-> now]]
    /\ UNCHANGED <<storeVars, idleVars, exchanges>>

\* The rest of processRoast: the transition snapshot names no audio.
ProcessRoastEnds ==
    /\ host.mounted /\ host.pc = "response"
    /\ host' = [host EXCEPT !.pc = "none", !.audio = "null", !.text = "none",
                            !.sent.phase = "transition"]
    /\ UNCHANGED <<storeVars, idleVars, exchanges>>

SegmentInit ==
    /\ sessions = LiveStore(0).sessions
    /\ messages = LiveStore(0).messages
    /\ grs = LiveStore(0).grs
    /\ now = SubmitWindowSec + LockedGraceSec
    /\ ctl = [c \in Controllers |-> CtlIdle]
    /\ clr = [r \in Completers |-> ClrIdle]
    /\ runs = [ctl |-> 0, clr |-> 0]
    /\ hist = [succ |-> {}, raced |-> {}]
    /\ exchanges = <<>>
    /\ \E n \in 1..MaxQueue : \E msgs \in [1..n -> MessageContents] :
         host = [mounted |-> TRUE, msgs |-> msgs, current |-> NoTime,
                 pc |-> "none", audio |-> "null", text |-> "none",
                 sent |-> NoBroadcast]
    /\ follower = FollowerIdle
    /\ personas = Personas

SegmentNext ==
    ProcessRoastUserPart \/ ProcessRoastResponsePart \/ ProcessRoastEnds

SegmentSpec == SegmentInit /\ [][SegmentNext]_vars

-----------------------------------------------------------------------------
(* useHostChatter: the waiting-room lines of one client.  A line is named by *)
(* the number of the playTTS call that passed the gate.                      *)

MaxLines == 3

ChatterIdle ==
    [enabled |-> FALSE, isPlayingRef |-> FALSE, cooldownRef |-> FALSE,
     hasStartedRef |-> FALSE, lines |-> 0, fetching |-> {}, audioRef |-> NULL,
     playing |-> {}]

\* clearSpeakingState
ClearSpeakingState(h) ==
    [h EXCEPT !.isPlayingRef = FALSE]

\* playTTS: if (isPlayingRef.current || cooldownRef.current) return
Blocked(h) ==
    h.isPlayingRef \/ h.cooldownRef

\* playTTS up to its fetch: nothing when blocked, else the line is marked
\* playing and its text-to-speech request goes out.
PlayTTS(h) ==
    IF Blocked(h) THEN h
    ELSE [h EXCEPT !.isPlayingRef = TRUE, !.lines = @ + 1,
                   !.fetching = @ \cup {h.lines + 1}]

\* One of the three effects that speak runs while the hook is enabled and the
\* timer is active: the first line (once), the idle interval, a countdown
\* threshold.  Each calls playTTS only when isPlayingRef is false.
ChatterEffectSpeaks ==
    /\ host.enabled /\ host.lines < MaxLines
    /\ ~host.isPlayingRef
    /\ \E effect \in {"first", "idle", "countdown"} :
         /\ effect = "first" => ~host.hasStartedRef
         /\ host' = PlayTTS([host EXCEPT
                       !.hasStartedRef = @ \/ effect = "first"])
    /\ UNCHANGED <<storeVars, idleVars, exchanges>>

\* playTTS after its fetch: on a response that is ok the audio in audioRef is
\* paused and the new audio plays; else the catch clears the speaking state.
ChatterFetchReturns ==
    /\ \E line \in host.fetching, ok \in BOOLEAN :
         host' = IF ok
                 THEN [host EXCEPT !.fetching = @ \ {line},
                                   !.playing = (@ \ {host.audioRef}) \cup {line},
                                   !.audioRef = line]
                 ELSE ClearSpeakingState([host EXCEPT !.fetching = @ \ {line}])
    /\ UNCHANGED <<storeVars, idleVars, exchanges>>

\* audio.onended: clear the speaking state and start the cooldown of 500 ms;
\* audio.onerror: clear the speaking state.
ChatterAudioStops ==
    /\ \E line \in host.playing, ended \in BOOLEAN :
         host' = ClearSpeakingState([host EXCEPT
                    !.playing = @ \ {line},
                    !.cooldownRef = @ \/ ended])
    /\ UNCHANGED <<storeVars, idleVars, exchanges>>

\* The timeout of 500 ms set by onended.
ChatterCooldownOver ==
    /\ host.cooldownRef
    /\ host' = [host EXCEPT !.cooldownRef = FALSE]
    /\ UNCHANGED <<storeVars, idleVars, exchanges>>

\* The enabled prop (or timeRemaining > 0) changes.  When it turns false the
\* first-line effect resets hasStartedRef and the reset effect pauses the
\* audio in audioRef, forgets it and clears the speaking state.
ChatterEnabledChanges ==
    /\ host' = IF host.enabled
               THEN ClearSpeakingState([host EXCEPT
                       !.enabled = FALSE, !.hasStartedRef = FALSE,
                       !.playing = @ \ {host.audioRef}, !.audioRef = NULL])
               ELSE [host EXCEPT !.enabled = TRUE]
    /\ UNCHANGED <<storeVars, idleVars, exchanges>>

ChatterInit ==
    /\ sessions = <<NewSession(1, 0)>>
    /\ messages = <<>>
    /\ grs = <<>>
    /\ now = 0
    /\ ctl = [c \in Controllers |-> CtlIdle]
    /\ clr = [r \in Completers |-> ClrIdle]
    /\ runs = [ctl |-> 0, clr |-> 0]
    /\ hist = [succ |-> {}, raced |-> {}]
    /\ exchanges = <<>>
    /\ host = ChatterIdle
    /\ follower = FollowerIdle
    /\ personas = Personas

ChatterNext ==
    \/ ChatterEffectSpeaks \/ ChatterFetchReturns \/ ChatterAudioStops
    \/ ChatterCooldownOver \/ ChatterEnabledChanges

ChatterSpec == ChatterInit /\ [][ChatterNext]_vars

-----------------------------------------------------------------------------
(* ArchiveStudioView: the replay of a session's stored exchanges.  A call of *)
(* playSequence is a loop, numbered in the order of the calls; shown is the  *)
(* history of what the loops displayed.                                      *)

MaxReplay == 2
MaxLoops == 2
MaxRestarts == 1

ReplayIdle ==
    [mounted |-> TRUE, loaded |-> FALSE, exs |-> <<>>, isPlaying |-> FALSE,
     pausedRef |-> FALSE, playingRef |-> FALSE, currentIndex |-> NoTime,
     loops |-> <<>>, timers |-> 0, restarts |-> 0, shown |-> <<>>]

\* A fetch that returns the session's rows in any order.
InAnyOrder(rows, sid) ==
    LET ids == {i \in 1..Len(rows) : rows[i].session_id = sid}
        n == Cardinality(ids)
    IN  {[k \in 1..n |-> rows[f[k]]] :
           f \in {g \in [1..n -> ids] : \A a, b \in 1..n : a # b => g[a] # g[b]}}

\* The orders in which .eq("session_id", sid).order("sequence_number") can
\* return the rows: every row of the session once, sequence numbers ascending.
OrderedBySequence(rows, sid) ==
    LET ids == {i \in 1..Len(rows) : rows[i].session_id = sid}
        n == Cardinality(ids)
    IN  {[k \in 1..n |-> rows[f[k]]] :
           f \in {g \in [1..n -> ids] :
                    /\ \A a, b \in 1..n : a # b => g[a] # g[b]
                    /\ \A a, b \in 1..n :
                         a < b => rows[g[a]].sequence_number
                                    <= rows[g[b]].sequence_number}}

\* fetchExchanges resolves: setExchanges(data).
ReplayFetchExchanges ==
    /\ ~host.loaded
    /\ \E data \in OrderedBySequence(exchanges, HostSession) :
         host' = [host EXCEPT !.loaded = TRUE, !.exs = data]
    /\ UNCHANGED <<storeVars, idleVars, exchanges>>

\* handleStart: nothing for an empty list, else playSequence(0) is called and
\* runs up to its first await.
HandleStart(h) ==
    IF Len(h.exs) = 0 THEN h
    ELSE [h EXCEPT !.isPlaying = TRUE, !.pausedRef = FALSE, !.currentIndex = 0,
                   !.playingRef = TRUE,
                   !.loops = Append(@, [i |-> 0, pc |-> "check",
                                        after |-> h.restarts])]

\* The Start button, shown while isPlaying is false.
ReplayStart ==
    /\ host.loaded /\ ~host.isPlaying
    /\ Len(host.loops) < MaxLoops
    /\ host' = HandleStart(host)
    /\ UNCHANGED <<storeVars, idleVars, exchanges>>

\* handleTogglePause (the button is shown while isPlaying is true).
ReplayTogglePause ==
    /\ host.isPlaying
    /\ host' = [host EXCEPT !.pausedRef = ~@]
    /\ UNCHANGED <<storeVars, idleVars, exchanges>>

\* handleRestart (the button is shown while isPlaying is true): stop the
\* audio, playingRef false, and handleStart in 300 ms.
ReplayRestart ==
    /\ host.isPlaying
    /\ host.restarts < MaxRestarts /\ Len(host.loops) < MaxLoops
    /\ host' = [host EXCEPT !.playingRef = FALSE, !.currentIndex = NoTime,
                            !.restarts = @ + 1, !.timers = @ + 1]
    /\ UNCHANGED <<storeVars, idleVars, exchanges>>

\* The timeout of handleRestart fires.
ReplayRestartTimer ==
    /\ host.timers > 0
    /\ host' = HandleStart([host EXCEPT !.timers = @ - 1])
    /\ UNCHANGED <<storeVars, idleVars, exchanges>>

\* playSequence from one await to the next, for the loop numbered l.
\*   check: the top of an iteration (both tests and waitWhilePaused), then the
\*          user's part is shown and its audio or the 2500 ms wait begins;
\*   user:  the wait is over; waitWhilePaused and the test, then the 500 ms
\*          transition begins;
\*   trans: the host's response is shown (nothing is tested after the
\*          transition), its audio or the 3000 ms wait begins;
\*   host:  the wait and the 400 ms pause are over: next iteration.
\* A loop that leaves the for statement runs the end of the replay at once.
PlaySequenceStep(l) ==
    /\ l \in 1..Len(host.loops)
    /\ LET loop == host.loops[l]
           goes == host.mounted /\ host.playingRef
           ended == [host EXCEPT !.loops[l].pc = "done", !.playingRef = FALSE,
                                 !.isPlaying = FALSE, !.currentIndex = NoTime]
           event(speaker) == [loop |-> l, rec |-> loop.i, speaker |-> speaker]
       IN  CASE loop.pc = "check" ->
                  IF loop.i >= Len(host.exs) \/ ~goes THEN host' = ended
                  ELSE /\ ~host.pausedRef
                       /\ host' = [host EXCEPT
                             !.loops[l].pc = "user", !.currentIndex = loop.i,
                             !.shown = Append(@, event("user"))]
            [] loop.pc = "user" ->
                  IF ~goes THEN host' = ended
                  ELSE /\ ~host.pausedRef
                       /\ host' = [host EXCEPT !.loops[l].pc = "trans"]
            [] loop.pc = "trans" ->
                  host' = [host EXCEPT
                        !.loops[l].pc = "host",
                        !.shown = Append(@, event(
                                     host.exs[loop.i + 1].host_type))]
            [] loop.pc = "host" ->
                  host' = [host EXCEPT !.loops[l].pc = "check",
                                       !.loops[l].i = @ + 1]
            [] OTHER -> FALSE
    /\ UNCHANGED <<storeVars, idleVars, exchanges>>

\* Stored exchanges of some sessions, in insertion order.
StoredExchanges ==
    UNION {[1..n -> [session_id : {HostSession, HostSession + 1},
                     message_id : {1},
                     host_type : {"A", "B"},
                     sequence_number : 1..MaxReplay]] : n \in 0..MaxReplay}

ReplayInit ==
    /\ sessions = <<[NewSession(1, 0) EXCEPT !.status = "ARCHIVED"]>>
    /\ messages = <<>>
    /\ grs = <<>>
    /\ now = 0
    /\ ctl = [c \in Controllers |-> CtlIdle]
    /\ clr = [r \in Completers |-> ClrIdle]
    /\ runs = [ctl |-> 0, clr |-> 0]
    /\ hist = [succ |-> {}, raced |-> {}]
    /\ exchanges \in StoredExchanges
    /\ host = ReplayIdle
    /\ follower = FollowerIdle
    /\ personas = Personas

ReplayNext ==
    \/ ReplayFetchExchanges \/ ReplayStart \/ ReplayTogglePause
    \/ ReplayRestart \/ ReplayRestartTimer
    \/ \E l \in 1..MaxLoops : PlaySequenceStep(l)

ReplaySpec == ReplayInit /\ [][ReplayNext]_vars

-----------------------------------------------------------------------------
(* WatchView on a Follower client: audio positioned from the snapshot.       *)
(* Times are in seconds; a clip is named by its duration.                    *)

\* A snapshot that is never stale.
NeverStale(elapsed) ==
    FALSE

\* playFollowerAudio: if (elapsed > 30) return
IsStale(elapsed) ==
    elapsed > StaleAfterSec

\* A seek that always starts the clip at its beginning.
SeekZero(elapsed, duration) ==
    0

\* onloadedmetadata: currentTime = elapsed when 0 < elapsed < audio.duration
SeekOffset(elapsed, duration) ==
    IF elapsed > 0 /\ elapsed < duration THEN elapsed ELSE 0

\* playFollowerAudio(url, startedAt) called at time t.
PlayFollowerAudio(f, url, startedAt, t) ==
    IF ~f.mounted THEN f
    ELSE IF IsStale(t - startedAt) THEN [f EXCEPT !.last = "skipped"]
    ELSE [f EXCEPT !.last = "started",
                   !.audio = [clip |-> url, elapsed |-> t - startedAt,
                              playing |-> FALSE, currentTime |-> 0]]

followerIdle ==
    <<sessions, messages, grs, ctl, clr, runs, hist, exchanges, host, personas>>

FollowerMount ==
    /\ ~follower.mounted /\ follower.last = "none"
    /\ follower' = [follower EXCEPT !.mounted = TRUE]
    /\ UNCHANGED <<followerIdle, now>>

\* The Host broadcasts a snapshot with an audio url and audio_started_at = now.
HostBroadcastsAudio(url) ==
    /\ follower' = [follower EXCEPT !.snapshot = [url |-> url, started_at |-> now]]
    /\ UNCHANGED <<followerIdle, now>>

\* onStateChange: the snapshot reaches the Follower, however late.
FollowerHandlesSnapshot ==
    /\ follower.snapshot # NoSnapshot
    /\ follower' = [PlayFollowerAudio(follower, follower.snapshot.url,
                                      follower.snapshot.started_at, now)
                       EXCEPT !.snapshot = NoSnapshot]
    /\ UNCHANGED <<followerIdle, now>>

\* audio.onloadedmetadata: seek, then play.
FollowerLoadedMetadata ==
    /\ follower.audio.clip # NULL /\ ~follower.audio.playing
    /\ follower' = [follower EXCEPT
          !.audio.playing = TRUE,
          !.audio.currentTime = SeekOffset(follower.audio.elapsed,
                                           follower.audio.clip)]
    /\ UNCHANGED <<followerIdle, now>>

FollowerUnmount ==
    /\ follower.mounted
    /\ follower' = [follower EXCEPT !.mounted = FALSE, !.audio = NoAudio]
    /\ UNCHANGED <<followerIdle, now>>

FollowerTick ==
    /\ \E d \in {1, StaleAfterSec} : now + d <= MaxFollowerNow /\ now' = now + d
    /\ UNCHANGED <<followerIdle, follower>>

FollowerInit ==
    /\ sessions = LiveStore(0).sessions
    /\ messages = LiveStore(0).messages
    /\ grs = LiveStore(0).grs
    /\ now = 0
    /\ ctl = [c \in Controllers |-> CtlIdle]
    /\ clr = [r \in Completers |-> ClrIdle]
    /\ runs = [ctl |-> 0, clr |-> 0]
    /\ hist = [succ |-> {}, raced |-> {}]
    /\ exchanges = <<>>
    /\ host = HostIdle
    /\ follower = FollowerIdle
    /\ personas = Personas

FollowerNext ==
    \/ FollowerMount
    \/ \E url \in Clips : HostBroadcastsAudio(url)
    \/ FollowerHandlesSnapshot \/ FollowerLoadedMetadata
    \/ FollowerUnmount \/ FollowerTick

FollowerSpec == FollowerInit /\ [][FollowerNext]_vars

-----------------------------------------------------------------------------
(* The store under concurrent edge-function invocations and clients *)

\* One OPEN session, seeded for some persona at time 0; nothing else yet.
Init ==
    /\ \E p \in Personas : sessions = <<NewSession(p, 0)>>
    /\ messages = <<>>
    /\ grs = <<>>
    /\ now = 0
    /\ ctl = [c \in Controllers |-> CtlIdle]
    /\ clr = [r \in Completers |-> ClrIdle]
    /\ runs = [ctl |-> 0, clr |-> 0]
    /\ hist = [succ |-> {}, raced |-> {}]
    /\ exchanges = <<>>
    /\ host = HostIdle
    /\ follower = FollowerIdle
    /\ personas = Personas

Controller(c) ==
    \/ CtlInvoke(c) \/ CtlReadOpen(c) \/ CtlLock(c) \/ CtlReadLocked(c)
    \/ CtlLive(c) \/ CtlReadCurOpen(c) \/ CtlReadGlobal(c) \/ CtlReadLive(c)
    \/ CtlStallCount(c) \/ CtlStallArchive(c)
    \/ CtlUgsCount(c) \/ CtlUgsRead(c) \/ CtlUgsWrite(c)

Completer(r) ==
    \/ ClrInvoke(r) \/ ClrLookup(r) \/ ClrArchive(r) \/ ClrMarkUsed(r)
    \/ ClrReadActive(r) \/ ClrInsert(r) \/ ClrReadActiveData(r)
    \/ ClrUgsCount(r) \/ ClrUgsRead(r) \/ ClrUgsWrite(r)

Client ==
    \/ \E s \in 1..MaxSessions : SubmitMessage(s)
    \/ \E m \in 1..MaxMessages : MarkMessageUsed(m)
    \/ \E p \in Personas : ForceNewKOL(p)
    \/ \E p \in Personas : CreateDemoSession(p)
    \/ \E s \in 1..MaxSessions, p \in Personas : HandleSessionComplete(s, p)

Next ==
    \/ \E c \in Controllers : Controller(c)
    \/ \E r \in Completers : Completer(r)
    \/ Client
    \/ Tick

Spec == Init /\ [][Next]_vars

-----------------------------------------------------------------------------
(* The edge functions called one at a time: every invocation returns before  *)
(* the next one starts.  The clock stops at the instants the Controller's    *)
(* time rules tell apart, counted from a session's lock_time.                *)

RunOffsets == {0, 5, LockedGraceSec, 16, StallArchiveSec, StallArchiveSec + 1}

SeqTick ==
    /\ \E s \in SessionIds, o \in RunOffsets :
          /\ sessions[s].lock_time + o > now
          /\ sessions[s].lock_time + o <= MaxNow
          /\ now' = sessions[s].lock_time + o
    /\ UNCHANGED <<sessions, messages, grs, ctl, clr, runs, hist, hostVars>>

\* session-manager from its first statement to its response; the first slot
\* keeps the clock value the invocation captured.
SeqSessionManager ==
    /\ \E db \in SessionManagerRun(Store, now) :
          /\ sessions' = db.sessions
          /\ messages' = db.messages
          /\ grs' = db.grs
    /\ ctl' = [ctl EXCEPT ![1].now = now]
    /\ UNCHANGED <<now, clr, runs, hist, hostVars>>

\* complete-live-round from its first statement to its response; the first
\* slot keeps the id posted and the status its lookup read, if it read a row.
SeqCompleteLiveRound(sid) ==
    /\ \E db \in CompleteLiveRound(Store, sid, now) :
          /\ sessions' = db.sessions
          /\ messages' = db.messages
          /\ grs' = db.grs
    /\ clr' = [clr EXCEPT ![1] =
            [ClrIdle EXCEPT !.arg = sid,
                            !.seen = IF sid \in 1..Len(sessions)
                                     THEN sessions[sid].status ELSE "none"]]
    /\ UNCHANGED <<now, ctl, runs, hist, hostVars>>

SeqNext ==
    \/ SeqSessionManager
    \/ \E sid \in 1..MaxSessions : SeqCompleteLiveRound(sid)
    \/ Client
    \/ SeqTick

SeqSpec == Init /\ [][SeqNext]_vars

-----------------------------------------------------------------------------
(* The Controller as the only backend: session-manager keeps being invoked   *)
(* (every client polls it), the clock keeps advancing, and no client ever    *)
(* calls complete-live-round.                                                *)

StallNext ==
    SeqSessionManager \/ Client \/ SeqTick

StallFairness ==
    WF_vars(SeqSessionManager) /\ WF_vars(SeqTick)

StallSpec == Init /\ [][StallNext]_vars /\ StallFairness

-----------------------------------------------------------------------------
(* The same, with a personas table of two rows or more.                      *)

MaxPersonas == 3

PersonaInit ==
    /\ \E n \in 2..MaxPersonas : personas = 1..n
    /\ \E p \in personas : sessions = <<NewSession(p, 0)>>
    /\ messages = <<>>
    /\ grs = <<>>
    /\ now = 0
    /\ ctl = [c \in Controllers |-> CtlIdle]
    /\ clr = [r \in Completers |-> ClrIdle]
    /\ runs = [ctl |-> 0, clr |-> 0]
    /\ hist = [succ |-> {}, raced |-> {}]
    /\ exchanges = <<>>
    /\ host = HostIdle
    /\ follower = FollowerIdle

PersonaSpec == PersonaInit /\ [][SeqNext]_vars

-----------------------------------------------------------------------------
(* Properties of the store *)

\* C1: a session's status only moves forward in the order OPEN, LOCKED, LIVE,
\* ARCHIVED: no step takes a session from a later status to an earlier one,
\* and an ARCHIVED session stays ARCHIVED.
C1_ForwardOnlyStatus ==
    [][\A s \in SessionIds :
          StatusRank(sessions'[s].status) >= StatusRank(sessions[s].status)]_vars

\* C2: in every reachable state at most one session is OPEN, LOCKED or LIVE.
C2_SingleActiveSession ==
    Cardinality(ActiveSessions(sessions)) <= 1

SuccessorsOf(sid) ==
    {c \in SessionIds : <<c, sid>> \in hist.succ}

Returned(sid) ==
    \A r \in Completers : clr[r].pc = "idle" \/ clr[r].arg # sid

\* C3: when two Round-Completion calls for the same LIVE session overlapped
\* and both have returned, exactly one successor session was created for it.
C3_OneSuccessorAfterRace ==
    \A s \in hist.raced :
        Returned(s) => Cardinality(SuccessorsOf(s)) = 1

\* C4: with no call in flight and at most one active session, two
\* Round-Completion calls in a row for an ARCHIVED session, the second no
\* earlier than the first, leave the session rows, the message rows and the
\* global_round_state rows exactly as the first call alone leaves them.
C4_IdempotentCompletion ==
    (InFlight = 0 /\ Cardinality(ActiveSessions(sessions)) <= 1) =>
        \A sid \in SessionIds :
            sessions[sid].status = "ARCHIVED" =>
                \A d1 \in CompleteLiveRound(Store, sid, now) :
                    \A t2 \in now..(now + MaxCallGap) :
                        \A d2 \in CompleteLiveRound(d1, sid, t2) : d2 = d1

\* The round phase agrees with the session's status.
PhaseConsistent(phase, st) ==
    \/ st = "OPEN" /\ phase = "SUBMITTING"
    \/ st = "LOCKED" /\ phase \in {"SUBMITTING", "LIVE"}
    \/ st = "LIVE" /\ phase = "LIVE"

PointsAtActive(g, ss) ==
    /\ g # <<>>
    /\ Authoritative(g).session_id \in 1..Len(ss)
    /\ ss[Authoritative(g).session_id].status # "ARCHIVED"
    /\ PhaseConsistent(Authoritative(g).round_state,
                       ss[Authoritative(g).session_id].status)

\* C5: at every successful return of a Round-Completion call, the
\* authoritative global_round_state row names a session that is not ARCHIVED
\* and carries the round phase of that session's status.
C5_ReturnLeavesGrsConsistent ==
    [][\A r \in Completers :
          (clr[r].pc = "ugsWrite" /\ clr'[r].pc = "idle")
              => PointsAtActive(grs', sessions')]_vars

\* C6: the used flag of a message never goes back from true to false.
C6_UsedMonotone ==
    [][\A m \in MessageIds : messages[m].used => messages'[m].used]_vars

\* C6 witness: a message is used and a Round-Completion cleanup over its
\* session has just run.
C6_Witness ==
    \E m \in MessageIds, r \in Completers :
        /\ messages[m].used
        /\ clr[r].pc = "readActive"
        /\ clr[r].arg = messages[m].session_id

\* C7: whenever a message's used flag goes from false to true, the owning
\* session is LIVE at that moment, whoever writes the flag.
C7_UsedOnlyWhileLive ==
    [][\A m \in MessageIds :
          Flipped(messages, messages', m)
              => sessions[messages[m].session_id].status = "LIVE"]_vars

\* C8: a message row is added only for a session that is OPEN at that moment,
\* and an insert for a session that is not OPEN leaves the table as it was.
C8_InsertOnlyWhenOpen ==
    [][/\ Len(messages') > Len(messages)
            => sessions[messages'[Len(messages')].session_id].status = "OPEN"
       /\ \A s \in 1..MaxSessions :
            (s \notin SessionIds \/ sessions[s].status # "OPEN")
                => SubmitInsert(messages, sessions, s) = messages]_vars

\* C8 witness: a message was accepted and its session has since left OPEN, so
\* that further inserts for it are refused.
C8_Witness ==
    \E m \in MessageIds : sessions[messages[m].session_id].status = "LIVE"

-----------------------------------------------------------------------------
(* Properties of the Host's playback *)

ExchangesOf(sid) ==
    SelectSeq(exchanges, LAMBDA x : x.session_id = sid)

\* C9: the sequence numbers of a session's exchange records, in the order
\* they were written, are 1, 2, ..., n: no gap and no duplicate.
C9_SequenceIntegrity ==
    \A s \in SessionIds :
        \A i \in 1..Len(ExchangesOf(s)) :
            ExchangesOf(s)[i].sequence_number = i

ExpectedHost(i) ==
    IF i % 2 = 0 THEN "A" ELSE "B"

\* C10: the host recorded for queue index i, and the host that plays the
\* response for index i, is A when i is even and B when i is odd, from the
\* pre-generation cache and from the fallback alike.
C10_HostAlternation ==
    /\ \A k \in 1..Len(exchanges) :
          exchanges[k].host_type = ExpectedHost(exchanges[k].sequence_number - 1)
    /\ host.resp.idx # NoTime => host.resp.hostType = ExpectedHost(host.resp.idx)

\* C10 witness: the response for index 1 came from the cache and was recorded
\* for host B, after the response for index 0 was recorded for host A.
C10_Witness ==
    /\ host.pc = "mark"
    /\ host.resp.idx = 1
    /\ host.resp.cached
    /\ Len(exchanges) = 2
    /\ exchanges[1].host_type = "A"
    /\ exchanges[2].host_type = "B"


ExchangesFor(m) ==
    {i \in 1..Len(exchanges) : exchanges[i].message_id = m}

\* C11: a message the scheduler processes has exactly one exchange record:
\* none while its roast and response segments are still playing, one from
\* the write that follows them, and it is that one write that precedes the
\* marking of the message as used.
C11_OneExchangeBeforeUsed ==
    /\ \A m \in DOMAIN messages : Cardinality(ExchangesFor(m)) <= 1
    /\ host.pc \in {"user", "save"} =>
          ExchangesFor(host.msgs[host.current + 1]) = {}
    /\ host.pc \in {"mark", "pause"} =>
          Cardinality(ExchangesFor(host.msgs[host.resp.idx + 1])) = 1


\* The Follower handles the pending snapshot k seconds after its audio start.
HandlesAfter(k) ==
    /\ follower.mounted
    /\ follower.snapshot # NoSnapshot
    /\ follower'.snapshot = NoSnapshot
    /\ now - follower.snapshot.started_at = k

\* The audio element of the Follower starts to play.
StartsPlaying ==
    ~follower.audio.playing /\ follower'.audio.playing

\* C12 as stated: a Follower that handles a snapshot k seconds after the
\* announced audio start, 0 < k < clip duration, loads that clip and starts
\* it at offset k.
C12_StartsAtOffset ==
    [][/\ \A k \in 1..MaxFollowerNow :
             HandlesAfter(k) /\ k < follower.snapshot.url =>
                 /\ follower'.audio.clip = follower.snapshot.url
                 /\ follower'.audio.elapsed = k
       /\ StartsPlaying /\ follower.audio.elapsed > 0
             /\ follower.audio.elapsed < follower.audio.clip =>
                 follower'.audio.currentTime = follower.audio.elapsed]_vars

\* C12 amended: the same for 0 < k < clip duration with k at most 30 seconds.
C12_StartsAtOffsetWithinThreshold ==
    [][/\ \A k \in 1..MaxFollowerNow :
             HandlesAfter(k) /\ k < follower.snapshot.url
                 /\ k <= StaleAfterSec =>
                 /\ follower'.audio.clip = follower.snapshot.url
                 /\ follower'.audio.elapsed = k
       /\ StartsPlaying /\ follower.audio.elapsed > 0
             /\ follower.audio.elapsed < follower.audio.clip =>
                 follower'.audio.currentTime = follower.audio.elapsed]_vars

C12_Witness ==
    /\ follower.last = "started"
    /\ follower.audio.playing
    /\ follower.audio.elapsed > 0
    /\ follower.audio.elapsed < follower.audio.clip
    /\ follower.audio.currentTime = follower.audio.elapsed

\* C13: a Follower that handles a snapshot whose audio start lies more than
\* 30 seconds in the past does not start that clip and leaves its current
\* audio as it was.
C13_StaleSnapshotIgnored ==
    [][\A k \in 0..MaxFollowerNow :
          HandlesAfter(k) /\ k > StaleAfterSec =>
              follower'.audio = follower.audio]_vars

C13_Witness ==
    /\ follower.last = "skipped"
    /\ follower.audio.playing
    /\ follower.audio.clip # NULL


\* The status a Controller invocation has read before it writes st.
ReadBefore(st) ==
    CASE st = "LOCKED" -> "OPEN"
      [] st = "LIVE" -> "LOCKED"
      [] st = "ARCHIVED" -> "LIVE"
      [] OTHER -> "none"

ControllerStep ==
    \E c \in Controllers : ctl'[c] # ctl[c]

StatusWriteIsConditional ==
    \A s \in 1..Len(sessions) :
        sessions'[s].status # sessions[s].status =>
            sessions[s].status = ReadBefore(sessions'[s].status)

LiveStateKept ==
    (/\ grs # <<>> /\ grs' # <<>>
     /\ Authoritative(grs).round_state = "LIVE"
     /\ Authoritative(grs').round_state = "LIVE"
     /\ Authoritative(grs').session_id = Authoritative(grs).session_id)
    => /\ Authoritative(grs').live_start_time = Authoritative(grs).live_start_time
       /\ Authoritative(grs').current_roast_index
             = Authoritative(grs).current_roast_index

\* C14: a step of a Controller invocation, overlapping with others or not,
\* changes a session's status only if the session still has the status the
\* invocation read, and once the global round state is LIVE for a session
\* it changes neither live_start_time nor current_roast_index.
C14_OverlapAsSingleInvocation ==
    [][ControllerStep => StatusWriteIsConditional /\ LiveStateKept]_vars


\* C15: when no invocation is in flight, a Controller run followed at once by
\* a second one, with no other writer and no time threshold in between,
\* leaves every session row and every global round state field as the first
\* run left them.
C15_SecondRunChangesNothing ==
    InFlight = 0 =>
        \A db1 \in SessionManagerRun(Store, now) :
            SessionManagerRun(db1, now) = {db1}


\* A step that does to the store what one Controller run at the current
\* clock does.
ControllerRunStep ==
    /\ now' = now
    /\ [sessions |-> sessions', messages |-> messages', grs |-> grs']
          \in SessionManagerRun(Store, now)

\* C16: a Controller run takes a session out of OPEN only when its lock_time
\* is not after the clock, and to LIVE only when lock_time is at least 10
\* seconds before the clock; no step makes a session LIVE earlier than 10
\* seconds after lock_time.  A run less than 10 seconds after lock_time (at
\* lock_time + 5) leaves a LOCKED session LOCKED, and a run from 10 seconds
\* after lock_time on (at lock_time + 16) makes it LIVE.
C16_LockAndLiveTiming ==
    [][/\ \A s \in 1..Len(sessions) :
             sessions'[s].status = "LIVE" /\ sessions[s].status # "LIVE"
                => sessions[s].lock_time + 10 <= now
       /\ ControllerRunStep =>
             \A s \in 1..Len(sessions) :
                LET lock == sessions[s].lock_time
                    old == sessions[s].status
                    new == sessions'[s].status
                IN  /\ old = "OPEN" /\ new # "OPEN" => lock <= now
                    /\ old = "OPEN" /\ lock <= now => new # "OPEN"
                    /\ old # "LIVE" /\ new = "LIVE" => lock <= now - 10
                    /\ old = "LOCKED" /\ now < lock + 10 => new = "LOCKED"
                    /\ old = "LOCKED" /\ now >= lock + 10
                          /\ now <= lock + 300 => new = "LIVE"]_vars

\* A run at lock_time + 16 has made the session LIVE.
C16_Witness ==
    \E s \in 1..Len(sessions) :
        /\ sessions[s].status = "LIVE"
        /\ ctl[1].now = sessions[s].lock_time + 16
        /\ now = ctl[1].now
        /\ grs # <<>>
        /\ Authoritative(grs).session_id = s
        /\ Authoritative(grs).live_start_time = sessions[s].lock_time + 16

\* C17: a Controller run archives a LIVE session exactly when the session
\* has no unused message and more than 5 minutes have passed since its
\* lock_time, and then leaves the global round state WAITING with no
\* session; otherwise the session stays LIVE.
C17_StallArchive ==
    [][ControllerRunStep =>
          \A s \in 1..Len(sessions) :
             sessions[s].status = "LIVE" =>
                IF CountUnused(messages, s) = 0
                   /\ now - sessions[s].lock_time > 300
                THEN /\ sessions'[s].status = "ARCHIVED"
                     /\ Authoritative(grs').round_state = "WAITING"
                     /\ Authoritative(grs').session_id = NULL
                ELSE sessions'[s].status = "LIVE"]_vars

C17_Witness ==
    \E s \in 1..Len(sessions) :
        /\ sessions[s].status = "ARCHIVED"
        /\ ctl[1].now > sessions[s].lock_time + 300
        /\ now = ctl[1].now
        /\ CountUnused(messages, s) = 0
        /\ grs # <<>>
        /\ Authoritative(grs).round_state = "WAITING"
        /\ Authoritative(grs).session_id = NULL


\* C18: the authoritative global round state row has a live_start_time when
\* its phase is LIVE and a submit_end_time when its phase is SUBMITTING.
C18_PhaseTimesPresent ==
    grs # <<>> =>
        /\ Authoritative(grs).round_state = "LIVE"
              => Authoritative(grs).live_start_time # NoTime
        /\ Authoritative(grs).round_state = "SUBMITTING"
              => Authoritative(grs).submit_end_time # NoTime


\* C19: a Round-Completion call with an id that matches no session answers
\* 404 and changes no session, no message and no global round state row.
C19_UnknownSessionNotFound ==
    [][\A sid \in 1..MaxSessions :
          clr'[1] # clr[1] /\ clr'[1].arg = sid /\ sid \notin 1..Len(sessions)
             => /\ ResponseStatus(sessions, sid) = 404
                /\ UNCHANGED <<sessions, messages, grs>>]_vars

C19_Witness ==
    /\ clr[1].arg # NULL
    /\ clr[1].arg \notin 1..Len(sessions)
    /\ clr[1].seen = "none"


\* C20: when a Round-Completion call archives a LIVE session and creates its
\* successor, and the personas table has at least two rows, the successor's
\* persona is not the persona of the session just archived.
C20_SuccessorHasDifferentSubject ==
    [][Len(sessions') = Len(sessions) + 1 /\ Cardinality(personas) >= 2 =>
          \A s \in 1..Len(sessions) :
             sessions[s].status = "LIVE" /\ sessions'[s].status = "ARCHIVED"
                => sessions'[Len(sessions')].persona # sessions[s].persona]_vars


\* A scheduler run over a queue that is not empty, in a round the component
\* has not completed yet.
RunStarted ==
    host.ticker /\ Len(host.msgs) > 0 /\ ~host.hasCompleted

AllProcessed ==
    host.processed = 0..(Len(host.msgs) - 1)

\* The exchange log still has room for one Exchange per queued message.
RoomForRun ==
    Len(exchanges) + Len(host.msgs) <= MaxExchanges

\* C21: with the Host attached and every awaited call returning, a scheduler
\* run over a non-empty queue leads to every item processed with the ticker
\* stopped, and to a Round-Completion call for the session.
C21_RunEndsInRoundCompletion ==
    /\ (RunStarted /\ RoomForRun) ~> (AllProcessed /\ ~host.ticker)
    /\ (RunStarted /\ RoomForRun) ~> (host.calling = HostSession)


\* The saveExchange call of the item in hand can be recorded.
RoomToSave ==
    Len(exchanges) < MaxExchanges

\* The response of the item in hand, by the outcome of its two calls.
ResponseOutcome(genOk, ttsOk) ==
    /\ host.resp.idx # NoTime
    /\ (host.resp.roast = GeneratedText) = genOk
    /\ (host.resp.ttsUrl = SynthAudio) = ttsOk

\* saveExchange and markMessageUsed have both been called for the item.
SavedAndMarked ==
    /\ host.pc = "pause"
    /\ \E k \in 1..Len(exchanges) :
          exchanges[k].message_id = host.msgs[host.resp.idx + 1]

\* C22: whatever the outcome of the generation call and of the synthesis
\* call, a response whose generation failed is the canned line of its host,
\* a response without audio lasts the fixed 3000 ms, and the item goes on to
\* its saveExchange and markMessageUsed calls.
C22_FallbacksKeepItemGoing ==
    /\ [](host.resp.idx # NoTime =>
            /\ host.resp.roast # GeneratedText =>
                  host.resp.roast = CannedLine(host.resp.hostType)
            /\ host.resp.ttsUrl # SynthAudio => host.resp.delayMs = 3000)
    /\ \A genOk, ttsOk \in BOOLEAN :
          (host.pc = "save" /\ RoomToSave /\ ResponseOutcome(genOk, ttsOk))
             ~> (SavedAndMarked /\ ResponseOutcome(genOk, ttsOk))

\* C22 witness: generation and synthesis both failed for the item at index 0,
\* its response was host A's canned line over a 3000 ms silence, its exchange
\* is recorded with that line and the message is marked used.
C22_Witness ==
    /\ SavedAndMarked
    /\ ResponseOutcome(FALSE, FALSE)
    /\ host.resp.roast = "Oh WOW, that was BRUTAL!"
    /\ host.resp.delayMs = 3000
    /\ messages[host.msgs[host.resp.idx + 1]].used


\* C23: a step of a client that is not Host starts no scheduler, marks no
\* message used, writes no exchange, calls neither complete-live-round nor the
\* creation of a successor: the store and the exchange log stay as they are,
\* and of the component only its display state moves.
C23_ViewerMutatesNothing ==
    [][~host.isHost =>
          /\ ~host'.ticker /\ ~host'.playing /\ host'.pc = "none"
          /\ host'.calling = NULL /\ host'.fin = "none"
          /\ messages' = messages
          /\ exchanges' = exchanges
          /\ sessions' = sessions
          /\ grs' = grs]_vars

\* C23 witness: a client that is not Host shows a LIVE session with an empty
\* queue, has followed a snapshot that says playing, and its auto-start
\* effect has run since.
C23_Witness ==
    /\ host.mounted /\ ~host.isHost
    /\ host.status = "LIVE" /\ host.fetched /\ Len(host.msgs) = 0
    /\ host.isPlaying /\ ~host.depsChanged


\* Invocation c of the Controller takes the step that leaves the given point.
CtlLeaves(c, pc) ==
    ctl[c].pc = pc /\ ctl'[c] # ctl[c]

\* C24: a Controller invocation that moves a session from LOCKED to LIVE goes
\* on to updateGlobalRoundState for it, counts the session's unused messages
\* there, and its write leaves the authoritative row LIVE for that session
\* with live_start_time the invocation's clock, submit_end_time the session's
\* lock_time, current_roast_index 0 and total_roasts the count it took.
C24_LiveUpsert ==
    [][\A c \in Controllers :
          /\ CtlLeaves(c, "liveLoop") =>
                \E s \in SessionIds :
                   /\ sessions'[s].status = "LIVE"
                   /\ ctl'[c].pc = "ugsCount"
                   /\ ctl'[c].call = [session_id |-> s, round_state |-> "LIVE",
                                      submit_end_time |-> sessions[s].lock_time,
                                      live_start_time |-> ctl[c].now]
          /\ CtlLeaves(c, "ugsCount") /\ ctl[c].call.round_state = "LIVE" =>
                ctl'[c].total = CountUnused(messages, ctl[c].call.session_id)
          /\ CtlLeaves(c, "ugsWrite") /\ ctl[c].call.round_state = "LIVE" =>
                LET s == ctl[c].call.session_id
                    r == Authoritative(grs')
                IN  /\ r.round_state = "LIVE" /\ r.session_id = s
                    /\ r.live_start_time = ctl[c].now
                    /\ r.submit_end_time = sessions[s].lock_time
                    /\ r.current_roast_index = 0
                    /\ r.total_roasts = ctl[c].total]_vars

\* C24 witness: the write has just been made for a session with one unused
\* message, ten seconds after its lock_time.
C24_Witness ==
    /\ grs # <<>>
    /\ LET r == Authoritative(grs)
       IN  /\ r.round_state = "LIVE" /\ r.session_id = 1
           /\ sessions[1].status = "LIVE"
           /\ r.live_start_time = sessions[1].lock_time + LockedGraceSec
           /\ r.submit_end_time = sessions[1].lock_time
           /\ r.current_roast_index = 0
           /\ r.total_roasts = 1 /\ CountUnused(messages, 1) = 1
    /\ \E c \in Controllers : ctl[c].pc = "readCurOpen"


\* C25: when no invocation is in flight and a Controller run is made, then
\* at its end, if a session is OPEN, the authoritative row is SUBMITTING for
\* the most recently created OPEN session, with that session's lock_time as
\* submit_end_time and no live_start_time.
C25_SubmittingForLatestOpen ==
    InFlight = 0 =>
        \A db \in SessionManagerRun(Store, now) :
            LatestOpen(db.sessions) # NULL =>
               /\ db.grs # <<>>
               /\ LET o == LatestOpen(db.sessions)
                      r == Authoritative(db.grs)
                  IN  /\ r.round_state = "SUBMITTING" /\ r.session_id = o
                      /\ r.submit_end_time = db.sessions[o].lock_time
                      /\ r.live_start_time = NoTime


\* The step starts processRoast for queue index i.
StartsItem(i) ==
    /\ host'.current = i
    /\ host'.pc = "user"
    /\ host.pc # "user" \/ host.current # i

C27_InOrderOnceAndOnTime ==
    [][\A i \in 0..(MaxQueue - 1) :
          StartsItem(i) =>
             /\ i \notin host.processed
             /\ \A k \in host.processed : k < i
             /\ i > 0 => (i - 1) \in host.processed
             /\ host.pc = "none"
             /\ host.elapsedSlots >= i
             /\ \A a, b \in 1..Len(host.msgs) :
                   a < b => host.msgs[a] < host.msgs[b]]_vars

\* C27 witness: item 1 is in its first segment, started after item 0 was
\* completed and one base delay had elapsed.
C27_Witness ==
    /\ host.pc = "user" /\ host.current = 1
    /\ host.processed = {0, 1}
    /\ host.elapsedSlots = 1
    /\ Len(exchanges) = 1 /\ exchanges[1].sequence_number = 1


\* The step takes the response of the item in hand from the cache.
UsesCached ==
    host.pc = "user" /\ host'.pc = "save" /\ host'.resp.cached

\* C28: a response taken from the cache is the entry the cache held for the
\* index of the item and for the host of that index's parity; the step that
\* uses it leaves the cache without an entry for that index, so that no
\* later response can be taken from it.
C28_CacheEntryUsedOnce ==
    [][UsesCached =>
          /\ \E e \in host.cache :
                /\ e.idx = host.current
                /\ e.hostType = ExpectedHost(host.current)
                /\ host'.resp.idx = e.idx /\ host'.resp.hostType = e.hostType
                /\ host'.resp.roast = e.roastText
                /\ host'.resp.ttsUrl = e.ttsUrl
          /\ ~\E e \in host'.cache : e.idx = host.current]_vars

\* C28 witness: the response of item 1 was taken from the cache, for host B,
\* and the cache holds nothing for index 1 any more.
C28_Witness ==
    /\ host.pc = "save" /\ host.resp.cached
    /\ host.resp.idx = 1 /\ host.resp.hostType = "B"
    /\ ~CacheHas(host, 1)

\* The row of g with the given id.
RowById(g, id) ==
    g[CHOOSE i \in 1..Len(g) : g[i].id = id]

UsedCount(ms, sid) ==
    Cardinality({m \in 1..Len(ms) : ms[m].session_id = sid /\ ms[m].used})

\* What one UPDATE of message m's used column does to every row of
\* global_round_state.
TriggerStep(m) ==
    \A i \in 1..Len(grs) :
        LET old == grs[i]
            new == RowById(grs', old.id)
        IN  IF /\ Flipped(messages, messages', m)
               /\ old.session_id = messages[m].session_id
               /\ old.round_state = "LIVE"
            THEN /\ old.current_roast_index # old.total_roasts
                      => new.current_roast_index = old.current_roast_index + 1
                 /\ old.current_roast_index = old.total_roasts
                      => new.current_roast_index = old.current_roast_index
                 /\ new.current_roast_index <= new.total_roasts
            ELSE new.current_roast_index = old.current_roast_index

\* C29: a false-to-true flip of a message's used flag raises current_roast_index
\* of every LIVE row of that message's session by exactly one, unless the index
\* already equals total_roasts; an update that leaves used as it was, and a
\* flip when the row is not LIVE, leave the index alone; after the trigger the
\* index is never above total_roasts.
C29_TriggerAdvancesByOne ==
    [][\A m \in MessageIds : MarkMessageUsed(m) => TriggerStep(m)]_vars

\* The trigger has raised the index of a LIVE row up to total_roasts and then
\* left it there on a further flip; no client has written the row.
C29_Witness ==
    /\ host.globalState.id = NULL
    /\ \E i \in 1..Len(grs) :
         /\ grs[i].round_state = "LIVE"
         /\ grs[i].current_roast_index >= 1
         /\ grs[i].current_roast_index = grs[i].total_roasts
         /\ UsedCount(messages, grs[i].session_id) > grs[i].current_roast_index

\* C30: while a session is LIVE and its row of global_round_state is in phase
\* LIVE, current_roast_index of that row is at most the number of the
\* session's messages with used = true, whichever of the trigger and the
\* hooks' advanceRoastIndex advanced it.
C30_IndexWithinUsed ==
    \A i \in 1..Len(grs) :
        LET r == grs[i]
        IN  ( /\ r.session_id \in 1..Len(sessions)
              /\ sessions[r.session_id].status = "LIVE"
              /\ r.round_state = "LIVE" )
            => r.current_roast_index <= UsedCount(messages, r.session_id)

\* C31: in every roast or response segment in which the Host plays audio, the
\* snapshot broadcast for that segment has a non-null current_audio_url and
\* an audio_started_at.
C31_SnapshotNamesPlayedAudio ==
    (host.pc \in {"roast", "response"} /\ host.audio # "null")
      => /\ host.sent.current_audio_url # "null"
         /\ host.sent.audio_started_at # NoTime

\* C32: in the waiting-room chatter at most one line's audio plays at a time,
\* and a line starts (its playTTS passes the gate, or its audio begins) only
\* when no line is playing and the cooldown after the last line is over.
C32_OneLineAndCooldown ==
    [][ /\ Cardinality(host'.playing) <= 1
        /\ (host'.lines # host.lines \/ host'.playing \ host.playing # {})
             => (host.playing = {} /\ ~host.cooldownRef) ]_vars

\* C33: once the Host's component is unmounted its ticker is cleared, and from
\* then on that client starts no queue item: no index is added to the
\* processed ones and none becomes the current one.
C33_DetachedHostStartsNothing ==
    /\ [](~host.mounted => ~host.ticker)
    /\ [][~host.mounted => /\ host'.processed = host.processed
                           /\ host'.current \in {host.current, NoTime}
                           /\ ~host'.ticker]_vars

\* The Host detached in the middle of a run: an item was started, another one
\* is due and not processed, and nothing is being processed.
C33_Witness ==
    /\ ~host.mounted /\ host.playing
    /\ host.processed # {}
    /\ NextUnprocessed(host) # NoTime
    /\ SlotDue(host, NextUnprocessed(host))
    /\ host.current = NoTime

\* C39: once the Host's component is unmounted that client writes nothing for
\* the session: it inserts no exchange, marks no message used and fires no
\* complete-live-round call, wherever in processRoast it was.
C39_DetachedHostWritesNothing ==
    [][~host.mounted => /\ exchanges' = exchanges
                        /\ ~(host.pc = "mark" /\ host'.pc # "mark")
                        /\ (host.calling = NULL => host'.calling = NULL)]_vars

\* C36: the Host is on its no-roasts path (the filler commentary that ends in
\* round completion) only when the store holds no unused message of the LIVE
\* session.
C36_NoRoastsOnlyWhenQueueEmpty ==
    host.fin = "noRoasts" => UnusedInOrder(messages, HostSession) = <<>>

\* What one walk of the loop numbered l shows for the list exs: for each
\* record in turn the user's part, then the part of the stored host.
RECURSIVE WalkOf(_, _, _)
WalkOf(exs, l, i) ==
    IF i >= Len(exs) THEN <<>>
    ELSE <<[loop |-> l, rec |-> i, speaker |-> "user"],
           [loop |-> l, rec |-> i, speaker |-> exs[i + 1].host_type]>>
         \o WalkOf(exs, l, i + 1)

IsPrefix(s, t) ==
    Len(s) <= Len(t) /\ \A k \in 1..Len(s) : s[k] = t[k]

C38_OneLoopAfterRestart ==
    [][Len(host'.shown) > Len(host.shown)
         => host.loops[host'.shown[Len(host'.shown)].loop].after
              = host.restarts]_vars

\* C35: global_round_state never holds more than one row, whatever upserts
\* run concurrently.
C35_SingleGlobalRow ==
    Len(grs) <= 1

\* The clock of the model can reach the instant at which the Controller
\* takes session s for stalled.
RoomToStall(s) ==
    sessions[s].lock_time + StallArchiveSec + 1 <= MaxNow

\* C37: with session-manager invoked again and again and the clock advancing,
\* every session that is LIVE is ARCHIVED in the end, although nobody calls
\* complete-live-round and messages of the session may stay unused.
C37_LiveEventuallyArchived ==
    \A s \in 1..MaxSessions :
        (s <= Len(sessions) /\ sessions[s].status = "LIVE" /\ RoomToStall(s))
          ~> (s <= Len(sessions) /\ sessions[s].status = "ARCHIVED")

\* C40: a Follower plays no clip that had already finished at the Host when
\* the snapshot was handled: the audio it plays was started less than the
\* clip's duration before.
C40_NoReplayOfFinishedClip ==
    follower.audio.playing => follower.audio.elapsed < follower.audio.clip

====
